---- MODULE Spec2Model ----
(***************************************************************************)
(* jikan-lite: the cache stores (MemoryCache, RedisCache), the cache       *)
(* module in front of them (cache.ts), and the AnimeService that combines  *)
(* the cache with the AnimeRepository.                                     *)
(*                                                                         *)
(* The specifications share the clock `now`:                               *)
(*   SpecMem  one MemoryCache instance, its map and its expiration timers  *)
(*   SpecMod  the cache module: setCache / getCache / deleteCache /        *)
(*            clearCache under every value of CACHE_STORE                  *)
(*   SpecSvc  AnimeService calls (findById, create, update, delete) as     *)
(*            processes that interleave at their awaits                    *)
(*   SpecRace    the same calls on one identifier, two processes           *)
(*   SpecOutage  the same calls when a Redis command rejects               *)
(*   SpecQuery   findByQuery next to create / update / delete              *)
(*   SpecSync    the sync-anime command, run after run, over one ID list   *)
(*   SpecCrash   the same command when the host process may terminate      *)
(*   SpecPace    the same command against a clock of half seconds          *)
(*   SpecSql     QueryToSQL and CountQueryToSQL over bounded QueryOptions   *)
(*   SpecPair    a MemoryCache and a RedisCache given the same calls       *)
(*   SpecBody    the sync command against payloads without a data field    *)
(*   SpecFaults  the sync command when checkpoint writes may fail          *)
(*   SpecFetch   fetchWithRetry, request by request                        *)
(*   SpecRow     an Anime through animeValues and toAnime                  *)
(*   SpecKey     the cache key and the statement of two QueryOptions       *)
(***************************************************************************)
EXTENDS Integers, Sequences, FiniteSets, TLC

VARIABLES
    now,        \* Date.now(), in milliseconds
    mem,        \* the MemoryCache instance: its Map, the pending timers, the next timer handle
    memLast,    \* the last operation on the instance and what it returned
    written,    \* per key: the last set not followed by a delete or clear (history)
    env,        \* process.env.CACHE_STORE
    redis,      \* the Redis server's keys: value and expiry time
    modLast,    \* the last cache-module call and its outcome (in SpecPair: the last
                \* RedisCache call)
    expect,     \* per key: the last setCache not followed by deleteCache/clearCache (history)
    rows,       \* the [anime] table: mal_id -> row
    calls,      \* the AnimeService calls in flight, one slot per caller
    prev,       \* the last two AnimeService calls that completed (history)
    busy,       \* what ran since no call was in flight: the calls started, the number
                \* of deletes (up to 2), and per id the last cache write applied and
                \* whether a cache set was applied, and whether a delete removed a
                \* row (history)
    progress,   \* .jikan-lite-progress.json: the lastIndex saved for 'anime', if any
    sync,       \* the runSyncAnime run: its options, window, position, counters, what
                \* the current item did, and whether every run so far had --resume
                \* (history); in SpecFetch the fetchWithRetry call: its arguments,
                \* loop index, and the requests and sleeps it has made
    sql         \* a QueryOptions and a table name, and what QueryToSQL and
                \* CountQueryToSQL built for them and the statements returned; in
                \* SpecRow an Anime, its row and the entity read back; in SpecKey two
                \* QueryOptions, their cache keys and their statements

memVars == <<mem, memLast, written>>
modVars == <<modLast, expect>>
svcVars == <<rows, calls, prev, busy>>
syncVars == <<progress, sync>>
vars == <<now, mem, memLast, written, env, redis, modLast, expect, rows, calls, prev, busy,
          progress, sync, sql>>

----------------------------------------------------------------------------
(* Bounds of the model *)

\* the clock stops advancing at MaxTime milliseconds
MaxTime == 2000
\* at most MaxTimers timer handles are handed out to one MemoryCache instance
MaxTimers == 2
\* the clock of the service specification advances by whole cache TTLs, MaxPeriods times
MaxPeriods == 1
\* the sync command runs MaxRuns times
MaxRuns == 2
\* the steps by which the clock advances, in milliseconds
TickSteps == {500}
\* the prefix the service puts before an id
Keys == {"anime_1", "anime_2"}
Ids == {1, 2}
Datas == {1, 2}
\* the keys findByQuery builds from the query options of the model
QueryKeys == {"anime_", "anime_&status=1"}
AllKeys == Keys \cup QueryKeys

----------------------------------------------------------------------------
(* JavaScript values and JSON texts *)

\* an optional value: <<>> is undefined, <<x>> is x
None == <<>>
Some(x) == <<x>>
IsSome(o) == Len(o) > 0
Get(o) == o[1]

\* A JavaScript value the service handles: null, an Anime, the empty object {},
\* or a Promise of one of these (promise = TRUE).
Null == [t |-> "null", mal_id |-> 0, data |-> 0, promise |-> FALSE]
EmptyObject == [t |-> "object", mal_id |-> 0, data |-> 0, promise |-> FALSE]
Anime(id, d) == [t |-> "anime", mal_id |-> id, data |-> d, promise |-> FALSE]
PromiseResolve(v) == [v EXCEPT !.promise = TRUE]
Await(v) == [v EXCEPT !.promise = FALSE]
Truthy(v) == v.promise \/ v.t # "null"
Animes == {Anime(i, d) : i \in Ids, d \in Datas}

\* an Anime[]: the entities of a query result (their order is not modelled)
List(items) == [t |-> "list", mal_id |-> 0, data |-> 0, promise |-> FALSE, items |-> items]
EmptyList == List({})

\* A string held by a cache: a JSON text, or no string (getCache's null).
NoString == [json |-> "null", id |-> 0, d |-> 0]
EmptyObjectText == [json |-> "{}", id |-> 0, d |-> 0]
AnimeText(id, d) == [json |-> "anime", id |-> id, d |-> d]
ListText(items) == [json |-> "list", id |-> 0, d |-> 0, items |-> items]
\* JSON.stringify: a Promise has no enumerable own properties and serializes as "{}"
JSONstringify(v) ==
    IF v.promise \/ v.t = "object" THEN EmptyObjectText
    ELSE IF v.t = "anime" THEN AnimeText(v.mal_id, v.data)
    ELSE IF v.t = "list" THEN ListText(v.items)
    ELSE NoString
JSONparse(s) ==
    IF s.json = "anime" THEN Anime(s.id, s.d)
    ELSE IF s.json = "{}" THEN EmptyObject
    ELSE IF s.json = "list" THEN List(s.items)
    ELSE Null
StringTruthy(s) == s.json # "null"
Texts == {AnimeText(i, d) : i \in Ids, d \in Datas} \cup {EmptyObjectText}

\* the strings the MemoryCache instance is given
MemValues == {AnimeText(1, 1), EmptyObjectText}

\* the ttl argument of set: omitted, or a number of seconds
TtlArgs == {None, Some(0), Some(1), Some(2)}

----------------------------------------------------------------------------
(* MemoryCache (cache/memory.ts) *)

\* new MemoryCache(): an empty Map, no timers
NewMemoryCache == [store |-> [k \in AllKeys |-> None], timers |-> {}, next |-> 1]

ttlToMs(ttl) == ttl * 1000

\* clearTimeout(entry.timer)
clearTimeout(m, timer) ==
    IF IsSome(timer)
    THEN [m EXCEPT !.timers = {tm \in @ : tm.tid # Get(timer)}]
    ELSE m

removeEntry(m, key, entry) ==
    LET m1 == IF IsSome(entry) THEN clearTimeout(m, Get(entry).timer) ELSE m
    IN  [m1 EXCEPT !.store[key] = None]

\* get returns the instance after the call and the value returned
MemoryCache_get(m, key, t) ==
    LET entry == m.store[key] IN
    IF ~IsSome(entry) THEN [m |-> m, ret |-> NoString]
    ELSE IF IsSome(Get(entry).expiresAt) /\ t >= Get(Get(entry).expiresAt)
         THEN [m |-> removeEntry(m, key, entry), ret |-> NoString]
         ELSE [m |-> m, ret |-> Get(entry).value]

\* set without the clearTimeout of the previous entry's timer
MemoryCache_set_KeepOldTimer(m, key, value, ttl, t) ==
    IF IsSome(ttl) /\ Get(ttl) # 0 /\ Get(ttl) > 0
    THEN LET ms == ttlToMs(Get(ttl))
             entry == [value |-> value, expiresAt |-> Some(t + ms), timer |-> Some(m.next)]
         IN  [m EXCEPT !.store[key] = Some(entry),
                       !.timers = @ \cup {[tid |-> m.next, key |-> key, due |-> t + ms]},
                       !.next = @ + 1]
    ELSE [m EXCEPT !.store[key] = Some([value |-> value, expiresAt |-> None, timer |-> None])]

\* set with an expiresAt that is never recorded (only the timer expires the entry)
MemoryCache_set_NoExpiresAt(m, key, value, ttl, t) ==
    LET prv == m.store[key]
        m1 == IF IsSome(prv) THEN clearTimeout(m, Get(prv).timer) ELSE m
    IN  IF IsSome(ttl) /\ Get(ttl) # 0 /\ Get(ttl) > 0
        THEN LET ms == ttlToMs(Get(ttl))
                 entry == [value |-> value, expiresAt |-> None, timer |-> Some(m1.next)]
             IN  [m1 EXCEPT !.store[key] = Some(entry),
                            !.timers = @ \cup {[tid |-> m1.next, key |-> key, due |-> t + ms]},
                            !.next = @ + 1]
        ELSE [m1 EXCEPT !.store[key] = Some([value |-> value, expiresAt |-> None, timer |-> None])]

MemoryCache_set(m, key, value, ttl, t) ==
    LET prv == m.store[key]
        m1 == IF IsSome(prv) THEN clearTimeout(m, Get(prv).timer) ELSE m
    IN  IF IsSome(ttl) /\ Get(ttl) # 0 /\ Get(ttl) > 0
        THEN LET ms == ttlToMs(Get(ttl))
                 entry == [value |-> value, expiresAt |-> Some(t + ms), timer |-> Some(m1.next)]
             IN  [m1 EXCEPT !.store[key] = Some(entry),
                            !.timers = @ \cup {[tid |-> m1.next, key |-> key, due |-> t + ms]},
                            !.next = @ + 1]
        ELSE [m1 EXCEPT !.store[key] = Some([value |-> value, expiresAt |-> None, timer |-> None])]

MemoryCache_delete(m, key) == removeEntry(m, key, m.store[key])

MemoryCache_clear(m) ==
    [m EXCEPT !.store = [k \in DOMAIN m.store |-> None],
              !.timers = {tm \in @ : \A k \in DOMAIN m.store :
                              ~(IsSome(m.store[k]) /\ Get(m.store[k]).timer = Some(tm.tid))}]

\* the callback given to setTimeout in set: this.store.delete(key)
timerCallback(m, tm) ==
    [m EXCEPT !.store[tm.key] = None, !.timers = @ \ {tm}]

----------------------------------------------------------------------------
(* RedisCache (cache/redis.ts): the keys of the Redis server *)

\* GET: a key past its expiry time is gone
RedisLive(r, key, t) ==
    IsSome(r[key]) /\ (IsSome(Get(r[key]).expiresAt) => t < Get(Get(r[key]).expiresAt))

\* get swallows the client's errors and returns what GET returns
RedisCache_get(r, key, t) ==
    IF RedisLive(r, key, t) THEN Get(r[key]).value ELSE NoString

\* SET key value, then EXPIRE key ttl when ttl is truthy (EXPIRE with a ttl <= 0
\* deletes the key)
RedisCache_set(r, key, value, ttl, t) ==
    IF IsSome(ttl) /\ Get(ttl) # 0
    THEN IF Get(ttl) > 0
         THEN [r EXCEPT ![key] = Some([value |-> value, expiresAt |-> Some(t + Get(ttl) * 1000)])]
         ELSE [r EXCEPT ![key] = None]
    ELSE [r EXCEPT ![key] = Some([value |-> value, expiresAt |-> None])]

\* delete that leaves the key in place
RedisCache_delete_Noop(r, key) == r

RedisCache_delete(r, key) == [r EXCEPT ![key] = None]

\* clear is not implemented: it logs and changes nothing
RedisCache_clear(r) == r

----------------------------------------------------------------------------
(* The cache module (cache.ts) *)

CACHE_TTL == 3600

\* the values of process.env.CACHE_STORE: two supported, unset, and an unsupported name
EnvValues == {"redis", "memory", "undefined", "memcached"}

\* getCacheStore that falls back to a MemoryCache instead of throwing
getCacheStore_FallbackMemory(e) ==
    IF e = "redis" THEN "RedisCache" ELSE "MemoryCache"

\* which store getCacheStore() constructs for this call, or "throw"
getCacheStore(e) ==
    IF e = "redis" THEN "RedisCache"
    ELSE IF e = "memory" THEN "MemoryCache"
    ELSE "throw"

\* the outcome of a cache-module call: the error raised (if any), the value
\* returned and the Redis keys after it
Outcome(err, ret, r) == [err |-> err, ret |-> ret, redis |-> r]
ConfigError == "No cache store configured"

\* setCache(key, value, ttl = CACHE_TTL)
setCache(e, r, key, value, ttl, t) ==
    LET store == getCacheStore(e)
        ttl1 == IF IsSome(ttl) THEN ttl ELSE Some(CACHE_TTL)
    IN  IF store = "RedisCache" THEN Outcome("none", NoString, RedisCache_set(r, key, value, ttl1, t))
        ELSE IF store = "MemoryCache"
             THEN \* the set goes to a MemoryCache constructed for this call alone
                  \* and no later call reaches that instance
                  LET instance == MemoryCache_set(NewMemoryCache, key, value, ttl1, t)
                  IN  Outcome("none", NoString, r)
             ELSE Outcome(ConfigError, NoString, r)

getCache(e, r, key, t) ==
    LET store == getCacheStore(e) IN
    IF store = "RedisCache" THEN Outcome("none", RedisCache_get(r, key, t), r)
    ELSE IF store = "MemoryCache"
         THEN Outcome("none", MemoryCache_get(NewMemoryCache, key, t).ret, r)
         ELSE Outcome(ConfigError, NoString, r)

deleteCache(e, r, key) ==
    LET store == getCacheStore(e) IN
    IF store = "RedisCache" THEN Outcome("none", NoString, RedisCache_delete(r, key))
    ELSE IF store = "MemoryCache" THEN Outcome("none", NoString, r)
         ELSE Outcome(ConfigError, NoString, r)

clearCache(e, r) ==
    LET store == getCacheStore(e) IN
    IF store = "RedisCache" THEN Outcome("none", NoString, RedisCache_clear(r))
    ELSE IF store = "MemoryCache" THEN Outcome("none", NoString, r)
         ELSE Outcome(ConfigError, NoString, r)

----------------------------------------------------------------------------
(* One MemoryCache instance: SpecMem *)

NoWrite == None
\* when the timer of the entry now under key is due, if it has one pending
PendingDue(m, key) ==
    LET due == {tm.due : tm \in {x \in m.timers :
                    IsSome(m.store[key]) /\ Get(m.store[key]).timer = Some(x.tid)}}
    IN  IF due = {} THEN None ELSE Some(CHOOSE d \in due : TRUE)
MemOp(op, key, ret, tid) == [op |-> op, key |-> key, ret |-> ret, tid |-> tid]

\* the part of the state the other specifications use, idle
ModOp(op, key, ret, err, first) ==
    [op |-> op, key |-> key, ret |-> ret, err |-> err, first |-> first]
\* cache.ts has been loaded (CACHE_TTL computed) and nothing has been called
ModIdle == modLast = ModOp("load", "", NoString, "none", TRUE)
             /\ expect = [k \in Keys |-> NoWrite]
\* the callers whose AnimeService calls may overlap
Callers == {1, 2}
IdleCall == [op |-> "idle", pc |-> "idle", id |-> 0, item |-> Null, val |-> Null,
             reads |-> 0, alone |-> TRUE, was |-> NoString]
NoCall == [op |-> "none", id |-> 0, item |-> Null, ret |-> Null, err |-> "none",
           reads |-> 0, at |-> 0, alone |-> TRUE, was |-> NoString]
NoBusy == [ops |-> {}, dels |-> 0, last |-> [i \in Ids |-> "none"],
           sets |-> [i \in Ids |-> 0], removed |-> FALSE]
SvcIdle == /\ rows = [i \in Ids |-> None]
           /\ calls = [p \in Callers |-> IdleCall]
           /\ prev = [last |-> NoCall, before |-> NoCall]
           /\ busy = NoBusy
\* no run of the sync command has started and no progress file exists
NoRun == [pc |-> "idle", runs |-> 0, allResume |-> TRUE]
SyncIdle == progress = None /\ sync = NoRun
\* no query is being translated
NoQuery == [table |-> "none"]
SqlIdle == sql = NoQuery
MemIdle == mem = NewMemoryCache
             /\ memLast = MemOp("new", "", NoString, 0)
             /\ written = [k \in Keys |-> NoWrite]

InitMem ==
    /\ now = 0
    /\ MemIdle
    /\ env = "memory"
    /\ redis = [k \in Keys |-> None]
    /\ ModIdle
    /\ SvcIdle
    /\ SyncIdle
    /\ SqlIdle

MemSet(key, value, ttl) ==
    /\ mem.next <= MaxTimers
    /\ mem' = MemoryCache_set(mem, key, value, ttl, now)
    /\ memLast' = MemOp("set", key, NoString, 0)
    /\ written' = [written EXCEPT ![key] =
                       Some([value |-> value, at |-> now, ttl |-> ttl,
                             oldDue |-> PendingDue(mem, key)])]
    /\ UNCHANGED <<sql, syncVars, now, env, redis, modVars, svcVars>>

MemGet(key) ==
    /\ mem' = MemoryCache_get(mem, key, now).m
    /\ memLast' = MemOp("get", key, MemoryCache_get(mem, key, now).ret, 0)
    /\ UNCHANGED <<sql, syncVars, now, written, env, redis, modVars, svcVars>>

MemDelete(key) ==
    /\ mem' = MemoryCache_delete(mem, key)
    /\ memLast' = MemOp("delete", key, NoString, 0)
    /\ written' = [written EXCEPT ![key] = NoWrite]
    /\ UNCHANGED <<sql, syncVars, now, env, redis, modVars, svcVars>>

MemClear ==
    /\ mem' = MemoryCache_clear(mem)
    /\ memLast' = MemOp("clear", "", NoString, 0)
    /\ written' = [k \in Keys |-> NoWrite]
    /\ UNCHANGED <<sql, syncVars, now, env, redis, modVars, svcVars>>

\* a pending timer fires once its delay has passed (possibly late)
TimerFire(tm) ==
    /\ tm \in mem.timers
    /\ now >= tm.due
    /\ mem' = timerCallback(mem, tm)
    /\ memLast' = MemOp("timer", tm.key, NoString, tm.tid)
    /\ UNCHANGED <<sql, syncVars, now, written, env, redis, modVars, svcVars>>

Tick(d) ==
    /\ now + d <= MaxTime
    /\ now' = now + d
    /\ memLast' = MemOp("tick", "", NoString, 0)
    /\ modLast' = [modLast EXCEPT !.op = IF @ = "load" THEN @ ELSE "tick"]
    /\ UNCHANGED <<sql, syncVars, mem, written, env, redis, expect, svcVars>>

NextMem ==
    \/ \E k \in Keys, v \in MemValues, ttl \in TtlArgs : MemSet(k, v, ttl)
    \/ \E k \in Keys : MemGet(k)
    \/ \E k \in Keys : MemDelete(k)
    \/ MemClear
    \/ \E tm \in mem.timers : TimerFire(tm)
    \/ \E d \in TickSteps : Tick(d)

SpecMem == InitMem /\ [][NextMem]_vars

----------------------------------------------------------------------------
(* A MemoryCache instance and a RedisCache given the same calls: SpecPair *)

\* the ttl argument of these calls: omitted, negative, zero, positive
PairTtlArgs == {None, Some(-1), Some(0), Some(1)}

\* set(key, value, ttl) on both stores
PairSet(key, value, ttl) ==
    /\ mem.next <= MaxTimers
    /\ mem' = MemoryCache_set(mem, key, value, ttl, now)
    /\ redis' = RedisCache_set(redis, key, value, ttl, now)
    /\ memLast' = MemOp("set", key, NoString, 0)
    /\ modLast' = ModOp("set", key, NoString, "none", FALSE)
    /\ written' = [written EXCEPT ![key] =
                       Some([value |-> value, at |-> now, ttl |-> ttl,
                             oldDue |-> PendingDue(mem, key)])]
    /\ UNCHANGED <<sql, syncVars, now, env, expect, svcVars>>

\* get(key) on both stores: memLast has what the MemoryCache returned, modLast what
\* the RedisCache returned
PairGet(key) ==
    /\ mem' = MemoryCache_get(mem, key, now).m
    /\ memLast' = MemOp("get", key, MemoryCache_get(mem, key, now).ret, 0)
    /\ modLast' = ModOp("get", key, RedisCache_get(redis, key, now), "none", FALSE)
    /\ UNCHANGED <<sql, syncVars, now, written, env, redis, expect, svcVars>>

\* delete(key) on both stores
PairDelete(key) ==
    /\ mem' = MemoryCache_delete(mem, key)
    /\ redis' = RedisCache_delete(redis, key)
    /\ memLast' = MemOp("delete", key, NoString, 0)
    /\ modLast' = ModOp("delete", key, NoString, "none", FALSE)
    /\ written' = [written EXCEPT ![key] = NoWrite]
    /\ UNCHANGED <<sql, syncVars, now, env, expect, svcVars>>

NextPair ==
    \/ \E k \in Keys, v \in MemValues, ttl \in PairTtlArgs : PairSet(k, v, ttl)
    \/ \E k \in Keys : PairGet(k)
    \/ \E k \in Keys : PairDelete(k)
    \/ \E tm \in mem.timers : TimerFire(tm)
    \/ \E d \in TickSteps : Tick(d)

SpecPair == InitMem /\ [][NextPair]_vars

----------------------------------------------------------------------------
(* The cache module under every CACHE_STORE: SpecMod *)

InitMod ==
    /\ now = 0
    /\ MemIdle
    /\ env \in EnvValues
    /\ redis = [k \in Keys |-> None]
    /\ ModIdle
    /\ SvcIdle
    /\ SyncIdle
    /\ SqlIdle

IsFirst == modLast.op = "load"

ModSet(key, value, ttl) ==
    LET o == setCache(env, redis, key, value, ttl, now) IN
    /\ redis' = o.redis
    /\ modLast' = ModOp("setCache", key, o.ret, o.err, IsFirst)
    /\ expect' = [expect EXCEPT ![key] =
                      Some([value |-> value, at |-> now,
                            ttl |-> IF IsSome(ttl) THEN ttl ELSE Some(CACHE_TTL),
                            oldDue |-> None])]
    /\ UNCHANGED <<sql, syncVars, now, memVars, env, svcVars>>

ModGet(key) ==
    LET o == getCache(env, redis, key, now) IN
    /\ redis' = o.redis
    /\ modLast' = ModOp("getCache", key, o.ret, o.err, IsFirst)
    /\ UNCHANGED <<sql, syncVars, now, memVars, env, expect, svcVars>>

ModDelete(key) ==
    LET o == deleteCache(env, redis, key) IN
    /\ redis' = o.redis
    /\ modLast' = ModOp("deleteCache", key, o.ret, o.err, IsFirst)
    /\ expect' = [expect EXCEPT ![key] = NoWrite]
    /\ UNCHANGED <<sql, syncVars, now, memVars, env, svcVars>>

ModClear ==
    LET o == clearCache(env, redis) IN
    /\ redis' = o.redis
    /\ modLast' = ModOp("clearCache", "", o.ret, o.err, IsFirst)
    /\ expect' = [k \in Keys |-> NoWrite]
    /\ UNCHANGED <<sql, syncVars, now, memVars, env, svcVars>>

NextMod ==
    \/ \E k \in Keys, v \in MemValues, ttl \in TtlArgs : ModSet(k, v, ttl)
    \/ \E k \in Keys : ModGet(k)
    \/ \E k \in Keys : ModDelete(k)
    \/ ModClear
    \/ \E d \in TickSteps : Tick(d)

SpecMod == InitMod /\ [][NextMod]_vars

----------------------------------------------------------------------------
(* AnimeRepository (database/repository/anime-repository.ts) over the [anime] table *)

JsTrue == [t |-> "boolean", mal_id |-> 0, data |-> 1, promise |-> FALSE]
JsFalse == [t |-> "boolean", mal_id |-> 0, data |-> 0, promise |-> FALSE]

\* SELECT * FROM anime WHERE mal_id = ?, the row mapped by toAnime(); a Promise
Repository_findById(tbl, id) ==
    IF IsSome(tbl[id]) THEN PromiseResolve(Anime(id, Get(tbl[id]))) ELSE PromiseResolve(Null)

\* INSERT INTO [anime]: mal_id is the primary key, a second row for it is refused
Repository_create(tbl, item) ==
    IF IsSome(tbl[item.mal_id])
    THEN [err |-> "SQLITE_CONSTRAINT", rows |-> tbl, ret |-> Null]
    ELSE [err |-> "none", rows |-> [tbl EXCEPT ![item.mal_id] = Some(item.data)],
          ret |-> PromiseResolve(item)]

\* UPDATE [anime] SET ... WHERE [mal_id] = item.mal_id, then findById(id) when a
\* row changed
Repository_update(tbl, id, item) ==
    IF IsSome(tbl[item.mal_id])
    THEN LET tbl1 == [tbl EXCEPT ![item.mal_id] = Some(item.data)]
         IN  [rows |-> tbl1, ret |-> Repository_findById(tbl1, id)]
    ELSE [rows |-> tbl, ret |-> PromiseResolve(Null)]

\* DELETE FROM anime WHERE mal_id = ?
Repository_delete(tbl, id) ==
    [rows |-> [tbl EXCEPT ![id] = None],
     ret |-> PromiseResolve(IF IsSome(tbl[id]) THEN JsTrue ELSE JsFalse)]

----------------------------------------------------------------------------
(* AnimeService (services/anime-service.ts): SpecSvc *)

CacheKey(id) == "anime_" \o ToString(id)

InFlight == {p \in Callers : calls[p].op # "idle"}

\* what getCache would return for id now (null also when it raises)
CachedNow(id) == getCache(env, redis, CacheKey(id), now).ret

\* a call starts: the calls already in flight are no longer alone
Started(p, op, pc, id, item, val, reads) ==
    [q \in Callers |->
        IF q = p
        THEN [op |-> op, pc |-> pc, id |-> id, item |-> item, val |-> val,
              reads |-> reads, alone |-> (InFlight = {}),
              was |-> IF op = "update" THEN CachedNow(id) ELSE NoString]
        ELSE [calls[q] EXCEPT !.alone = (calls[q].op = "idle")]]

BusyStart(op, id) ==
    LET b == IF InFlight = {} THEN NoBusy ELSE busy
    IN  [b EXCEPT !.ops = @ \cup {<<op, id>>},
                  !.dels = IF op = "delete" /\ @ < 2 THEN @ + 1 ELSE @]

\* a call returns ret to its caller, or raises err
Finished(p, ret, err) ==
    /\ calls' = [calls EXCEPT ![p] = IdleCall]
    /\ prev' = [last |-> [op |-> calls[p].op, id |-> calls[p].id, item |-> calls[p].item,
                          ret |-> ret, err |-> err, reads |-> calls[p].reads, at |-> now,
                          alone |-> calls[p].alone, was |-> calls[p].was],
                before |-> [prev.last EXCEPT !.was = NoString]]

\* CACHE_STORE for the service: the two supported stores, and unset
SvcEnvValues == {"redis", "memory", "undefined"}

InitSvc ==
    /\ now = 0
    /\ MemIdle
    /\ env \in SvcEnvValues
    /\ redis = [k \in Keys |-> None]
    /\ ModIdle
    /\ SvcIdle
    /\ SyncIdle
    /\ SqlIdle

\* findById(id): getCache is called
FindById(p, id) ==
    /\ calls[p].op = "idle"
    /\ calls' = Started(p, "findById", "cacheGet", id, Null, Null, 0)
    /\ busy' = BusyStart("findById", id)
    /\ UNCHANGED <<sql, syncVars, now, memVars, env, redis, modVars, rows, prev>>

\* await getCache(`anime_${id}`): a hit returns JSON.parse of the cached string
FindById_cacheGet(p) ==
    /\ calls[p].op = "findById" /\ calls[p].pc = "cacheGet"
    /\ LET o == getCache(env, redis, CacheKey(calls[p].id), now) IN
       IF o.err # "none" THEN Finished(p, Null, o.err)
       ELSE IF StringTruthy(o.ret) THEN Finished(p, JSONparse(o.ret), "none")
       ELSE /\ calls' = [calls EXCEPT ![p].pc = "repoRead"]
            /\ prev' = prev
    /\ UNCHANGED <<sql, syncVars, now, memVars, env, redis, modVars, rows, busy>>

\* let anime = this.repository.findById(id) (not awaited: a Promise); if (anime)
\* setCache(..., JSON.stringify(anime)) is called
FindById_repoRead(p) ==
    /\ calls[p].op = "findById" /\ calls[p].pc = "repoRead"
    /\ LET anime == Repository_findById(rows, calls[p].id) IN
       IF Truthy(anime)
       THEN /\ calls' = [calls EXCEPT ![p].pc = "cacheSet", ![p].val = anime,
                                      ![p].reads = @ + 1]
            /\ prev' = prev
       ELSE \* return null
            /\ calls' = [calls EXCEPT ![p] = IdleCall]
            /\ prev' = [last |-> [op |-> "findById", id |-> calls[p].id, item |-> Null,
                                  ret |-> Null, err |-> "none", reads |-> 1, at |-> now,
                                  alone |-> calls[p].alone, was |-> NoString],
                        before |-> [prev.last EXCEPT !.was = NoString]]
    /\ UNCHANGED <<sql, syncVars, now, memVars, env, redis, modVars, rows, busy>>

\* await setCache(...) of findById, create and update; then the call returns
Service_cacheSet(p) ==
    /\ calls[p].pc = "cacheSet"
    /\ LET o == setCache(env, redis, CacheKey(calls[p].id), JSONstringify(calls[p].val),
                         None, now) IN
       /\ redis' = o.redis
       /\ IF o.err # "none" THEN Finished(p, Null, o.err)
          ELSE Finished(p, Await(calls[p].val), "none")
       /\ busy' = IF o.err = "none"
                  THEN [busy EXCEPT !.last[calls[p].id] = "set", !.sets[calls[p].id] = 1]
                  ELSE busy
    /\ UNCHANGED <<sql, syncVars, now, memVars, env, modVars, rows>>

\* create(item): the repository inserts the row, then setCache is called with the
\* created entity
Create(p, item) ==
    /\ calls[p].op = "idle"
    /\ LET c == Repository_create(rows, item) IN
       /\ rows' = c.rows
       /\ IF c.err # "none"
          THEN /\ calls' = Started(p, "create", "throw", item.mal_id, item, Null, 0)
          ELSE /\ calls' = Started(p, "create", "cacheSet", item.mal_id, item, Await(c.ret), 0)
    /\ busy' = BusyStart("create", item.mal_id)
    /\ UNCHANGED <<sql, syncVars, now, memVars, env, redis, modVars, prev>>

\* the INSERT was refused: create raises
Create_throw(p) ==
    /\ calls[p].op = "create" /\ calls[p].pc = "throw"
    /\ Finished(p, Null, "SQLITE_CONSTRAINT")
    /\ UNCHANGED <<sql, syncVars, now, memVars, env, redis, modVars, rows, busy>>

\* update(id, item): let updatedAnime = this.repository.update(id, item) (not
\* awaited: a Promise); if (updatedAnime) setCache(..., JSON.stringify(updatedAnime))
Update(p, id, item) ==
    /\ calls[p].op = "idle"
    /\ LET u == Repository_update(rows, id, item) IN
       /\ rows' = u.rows
       /\ IF Truthy(u.ret)
          THEN /\ calls' = Started(p, "update", "cacheSet", id, item, u.ret, 0)
               /\ prev' = prev
          ELSE \* return Promise.resolve(null)
               /\ calls' = calls
               /\ prev' = [last |-> [op |-> "update", id |-> id, item |-> item, ret |-> Null,
                                     err |-> "none", reads |-> 0, at |-> now,
                                     alone |-> (InFlight = {}), was |-> CachedNow(id)],
                           before |-> [prev.last EXCEPT !.was = NoString]]
    /\ busy' = BusyStart("update", id)
    /\ UNCHANGED <<sql, syncVars, now, memVars, env, redis, modVars>>

\* delete(id): deleteCache is called
Delete(p, id) ==
    /\ calls[p].op = "idle"
    /\ calls' = Started(p, "delete", "cacheDelete", id, Null, Null, 0)
    /\ busy' = BusyStart("delete", id)
    /\ UNCHANGED <<sql, syncVars, now, memVars, env, redis, modVars, rows, prev>>

\* await deleteCache(`anime_${id}`)
Delete_cacheDelete(p) ==
    /\ calls[p].op = "delete" /\ calls[p].pc = "cacheDelete"
    /\ LET o == deleteCache(env, redis, CacheKey(calls[p].id)) IN
       /\ redis' = o.redis
       /\ IF o.err # "none" THEN Finished(p, Null, o.err)
          ELSE /\ calls' = [calls EXCEPT ![p].pc = "repoDelete"]
               /\ prev' = prev
       /\ busy' = IF o.err = "none" THEN [busy EXCEPT !.last[calls[p].id] = "delete"] ELSE busy
    /\ UNCHANGED <<sql, syncVars, now, memVars, env, modVars, rows>>

\* return Promise.resolve(this.repository.delete(id))
Delete_repoDelete(p) ==
    /\ calls[p].op = "delete" /\ calls[p].pc = "repoDelete"
    /\ LET d == Repository_delete(rows, calls[p].id) IN
       /\ rows' = d.rows
       /\ Finished(p, Await(d.ret), "none")
       /\ busy' = [busy EXCEPT !.removed = @ \/ (Await(d.ret) = JsTrue)]
    /\ UNCHANGED <<sql, syncVars, now, memVars, env, redis, modVars>>

\* one cache TTL passes
Elapse ==
    /\ now < MaxPeriods * ttlToMs(CACHE_TTL)
    /\ now' = now + ttlToMs(CACHE_TTL)
    /\ UNCHANGED <<sql, syncVars, memVars, env, redis, modVars, svcVars>>

\* the id the overlapping calls are about, and the entity created for it
RaceIds == {1}
RaceAnimes == {Anime(i, 1) : i \in RaceIds}

\* the steps of caller p
SvcStep(p) ==
    \/ \E id \in Ids : FindById(p, id)
    \/ FindById_cacheGet(p)
    \/ FindById_repoRead(p)
    \/ Service_cacheSet(p)
    \/ \E item \in Animes : Create(p, item)
    \/ Create_throw(p)
    \/ \E id \in Ids, item \in Animes : Update(p, id, item)
    \/ \E id \in Ids : Delete(p, id)
    \/ Delete_cacheDelete(p)
    \/ Delete_repoDelete(p)

\* one caller: every call completes before the next one starts
NextSvc == SvcStep(1) \/ Elapse

SpecSvc == InitSvc /\ [][NextSvc]_vars

\* Overlapping calls: a caller's findById, create and delete calls interleave with
\* the other callers' at their awaits.
RaceStep(p) ==
    \/ \E id \in RaceIds : FindById(p, id)
    \/ FindById_cacheGet(p)
    \/ FindById_repoRead(p)
    \/ Service_cacheSet(p)
    \/ \E item \in RaceAnimes : Create(p, item)
    \/ Create_throw(p)
    \/ \E id \in RaceIds : Delete(p, id)
    \/ Delete_cacheDelete(p)
    \/ Delete_repoDelete(p)

NextRace == (\E p \in Callers : RaceStep(p)) \/ Elapse

SpecRace == InitSvc /\ [][NextRace]_vars

----------------------------------------------------------------------------
(* AnimeService while commands of the Redis client may reject: SpecOutage *)

RedisError == "RedisError"

\* RedisCache.get: this.client.get rejects, the error is swallowed and null is
\* returned: findById goes on to the repository
FindById_cacheGet_rejects(p) ==
    /\ env = "redis"
    /\ calls[p].op = "findById" /\ calls[p].pc = "cacheGet"
    /\ calls' = [calls EXCEPT ![p].pc = "repoRead"]
    /\ UNCHANGED <<sql, syncVars, now, memVars, env, redis, modVars, rows, prev, busy>>

\* RedisCache.set: this.client.set rejects; set has no try/catch, and neither have
\* setCache nor the service method awaiting it: the call raises
Service_cacheSet_rejects(p) ==
    /\ env = "redis"
    /\ calls[p].pc = "cacheSet"
    /\ Finished(p, Null, RedisError)
    /\ UNCHANGED <<sql, syncVars, now, memVars, env, redis, modVars, rows, busy>>

\* RedisCache.delete: this.client.del rejects and delete(id) raises before the
\* repository is called
Delete_cacheDelete_rejects(p) ==
    /\ env = "redis"
    /\ calls[p].op = "delete" /\ calls[p].pc = "cacheDelete"
    /\ Finished(p, Null, RedisError)
    /\ UNCHANGED <<sql, syncVars, now, memVars, env, redis, modVars, rows, busy>>

NextOutage ==
    \/ RaceStep(1)
    \/ FindById_cacheGet_rejects(1)
    \/ Service_cacheSet_rejects(1)
    \/ Delete_cacheDelete_rejects(1)
    \/ Elapse

SpecOutage == InitSvc /\ [][NextOutage]_vars

----------------------------------------------------------------------------
(* AnimeService.findByQuery next to create, update and delete: SpecQuery *)

\* QueryOptions: limit (absent or 0) and filters.status (absent or a value); page,
\* orderBy and orderDirection are absent
QueryLimits == {None, Some(0)}
QueryStatuses == {None, Some(1)}
QueryOptions == [limit : QueryLimits, status : QueryStatuses]

\* QueryToString: a falsy limit (absent, 0) adds nothing; a filter that is neither
\* undefined nor null adds "&<key>=<value>"
QueryToString(query) ==
    (IF IsSome(query.limit) /\ Get(query.limit) # 0
     THEN "&limit=" \o ToString(Get(query.limit)) ELSE "")
    \o (IF IsSome(query.status) THEN "&status=" \o ToString(Get(query.status)) ELSE "")

QueryKey(options) == "anime_" \o QueryToString(options)

\* QueryToSQL and the SELECT: WHERE `status` = ? for the filter, LIMIT ? when limit
\* is a non-negative integer; the rows mapped by toAnime(); a Promise
Repository_findByQuery(tbl, options) ==
    LET matching == {Anime(i, Get(tbl[i])) :
                        i \in {j \in Ids : /\ IsSome(tbl[j])
                                           /\ IsSome(options.status)
                                                 => Get(tbl[j]) = Get(options.status)}}
        limited == IF IsSome(options.limit) /\ Get(options.limit) >= 0
                      /\ Cardinality(matching) > Get(options.limit)
                   THEN CHOOSE l \in SUBSET matching : Cardinality(l) = Get(options.limit)
                   ELSE matching
    IN  PromiseResolve(List(limited))

\* a list that is cached whatever its length
NonEmpty_Always(animeList) == TRUE

\* animeList.length > 0
NonEmpty(animeList) == Cardinality(animeList.items) > 0

\* the redis keys of the ids and of the queries
InitQuery ==
    /\ now = 0
    /\ MemIdle
    /\ env \in SvcEnvValues
    /\ redis = [k \in AllKeys |-> None]
    /\ ModIdle
    /\ SvcIdle
    /\ SyncIdle
    /\ SqlIdle

\* findByQuery(options): getCache is called with the key built from the options
FindByQuery(p, options) ==
    /\ calls[p].op = "idle"
    /\ calls' = Started(p, "findByQuery", "queryCacheGet", 0, options, Null, 0)
    /\ busy' = BusyStart("findByQuery", 0)
    /\ UNCHANGED <<sql, syncVars, now, memVars, env, redis, modVars, rows, prev>>

\* await getCache(cacheKey): a hit returns JSON.parse of the cached string
FindByQuery_cacheGet(p) ==
    /\ calls[p].op = "findByQuery" /\ calls[p].pc = "queryCacheGet"
    /\ LET o == getCache(env, redis, QueryKey(calls[p].item), now) IN
       IF o.err # "none" THEN Finished(p, Null, o.err)
       ELSE IF StringTruthy(o.ret) THEN Finished(p, JSONparse(o.ret), "none")
       ELSE /\ calls' = [calls EXCEPT ![p].pc = "queryRepo"]
            /\ prev' = prev
    /\ UNCHANGED <<sql, syncVars, now, memVars, env, redis, modVars, rows, busy>>

\* let animeList = await this.repository.findByQuery(options); an empty list is
\* returned without a cache write
FindByQuery_repoQuery(p) ==
    /\ calls[p].op = "findByQuery" /\ calls[p].pc = "queryRepo"
    /\ LET animeList == Await(Repository_findByQuery(rows, calls[p].item)) IN
       IF NonEmpty(animeList)
       THEN /\ calls' = [calls EXCEPT ![p].pc = "queryCacheSet", ![p].val = animeList,
                                      ![p].reads = @ + 1]
            /\ prev' = prev
       ELSE \* return []
            /\ calls' = [calls EXCEPT ![p] = IdleCall]
            /\ prev' = [last |-> [op |-> "findByQuery", id |-> 0, item |-> calls[p].item,
                                  ret |-> EmptyList, err |-> "none", reads |-> 1, at |-> now,
                                  alone |-> calls[p].alone, was |-> NoString],
                        before |-> [prev.last EXCEPT !.was = NoString]]
    /\ UNCHANGED <<sql, syncVars, now, memVars, env, redis, modVars, rows, busy>>

\* await setCache(cacheKey, JSON.stringify(animeList)); return animeList
FindByQuery_cacheSet(p) ==
    /\ calls[p].op = "findByQuery" /\ calls[p].pc = "queryCacheSet"
    /\ LET o == setCache(env, redis, QueryKey(calls[p].item), JSONstringify(calls[p].val),
                         None, now) IN
       /\ redis' = o.redis
       /\ IF o.err # "none" THEN Finished(p, Null, o.err)
          ELSE Finished(p, calls[p].val, "none")
    /\ UNCHANGED <<sql, syncVars, now, memVars, env, modVars, rows, busy>>

\* the entities created and the updates made next to the queries
QueryAnimes == {Anime(i, d) : i \in RaceIds, d \in Datas}

QueryStep(p) ==
    \/ \E options \in QueryOptions : FindByQuery(p, options)
    \/ FindByQuery_cacheGet(p)
    \/ FindByQuery_repoQuery(p)
    \/ FindByQuery_cacheSet(p)
    \/ \E item \in QueryAnimes : Create(p, item)
    \/ Create_throw(p)
    \/ \E item \in QueryAnimes : Update(p, item.mal_id, item)
    \/ Service_cacheSet(p)
    \/ \E id \in RaceIds : Delete(p, id)
    \/ Delete_cacheDelete(p)
    \/ Delete_repoDelete(p)

\* one caller: every call completes before the next one starts
NextQuery == QueryStep(1) \/ Elapse

SpecQuery == InitQuery /\ [][NextQuery]_vars

----------------------------------------------------------------------------
(* AnimeService calls made one at a time, each run to completion *)

\* findById(id), awaited: the error raised (if any), the value the caller gets and
\* the Redis keys after the call
AnimeService_findById(e, r, tbl, id, t) ==
    LET g == getCache(e, r, CacheKey(id), t) IN
    IF g.err # "none" THEN [err |-> g.err, ret |-> Null, redis |-> r]
    ELSE IF StringTruthy(g.ret) THEN [err |-> "none", ret |-> JSONparse(g.ret), redis |-> r]
    ELSE LET anime == Repository_findById(tbl, id) IN
         IF Truthy(anime)
         THEN LET c == setCache(e, r, CacheKey(id), JSONstringify(anime), None, t) IN
              [err |-> c.err, ret |-> IF c.err = "none" THEN Await(anime) ELSE Null,
               redis |-> c.redis]
         ELSE [err |-> "none", ret |-> Null, redis |-> r]

\* create(item), awaited
AnimeService_create(e, r, tbl, item, t) ==
    LET c == Repository_create(tbl, item) IN
    IF c.err # "none" THEN [err |-> c.err, rows |-> tbl, redis |-> r]
    ELSE LET createdAnime == Await(c.ret)
             o == setCache(e, r, CacheKey(createdAnime.mal_id), JSONstringify(createdAnime),
                           None, t)
         IN  [err |-> o.err, rows |-> c.rows, redis |-> o.redis]

\* update(id, item), awaited
AnimeService_update(e, r, tbl, id, item, t) ==
    LET u == Repository_update(tbl, id, item) IN
    IF Truthy(u.ret)
    THEN LET o == setCache(e, r, CacheKey(id), JSONstringify(u.ret), None, t)
         IN  [err |-> o.err, rows |-> u.rows, redis |-> o.redis]
    ELSE [err |-> "none", rows |-> u.rows, redis |-> r]

----------------------------------------------------------------------------
(* The sync command (cli/commands/sync-anime.ts): SpecSync *)

\* the ID list downloaded from IDS_URL
IdList == <<1, 2>>
\* --from-index: negative numbers, the default 0, and an index inside the list
FromIndexes == {-3, -2, 0, 1}
\* --limit: absent, or a number of items
Limits == {None, Some(1)}
\* fetchWithRetry's default number of retries
Retries == 3
\* how many attempts of one upstream fetch fail before one succeeds: none, one, or
\* every attempt of fetchWithRetry
UpstreamFailures == {0, 1, Retries + 1}
\* the upstream during one run: per id, how many attempts fail
Upstreams == [Ids -> UpstreamFailures]
\* the `data` of the upstream's payload for an id
UpstreamData == 2
\* per id, whether the payload of a successful request has a `data` field
Bodies == [Ids -> BOOLEAN]
\* an upstream whose payloads all have one
WithData == [id \in Ids |-> TRUE]

Max(a, b) == IF a >= b THEN a ELSE b

\* readProgress: the saved lastIndex of 'anime'; nothing when the file is missing or
\* unreadable
readProgress(file) == IF Len(file) = 1 THEN file ELSE None

\* the file after fs.writeFile was interrupted: opened and truncated, its text is
\* not JSON
Torn == <<0, 0>>

\* writeProgress(kind, lastIndex): the file after the write
writeProgress(file, lastIndex) == Some(lastIndex)

\* fetchWithRetry(url, retries = 3) for an upstream whose first `failures` requests
\* fail: the requests made, and the error raised (lastErr: the request it came from)
\* or the payload's data. fetchAttempt is request i of the loop
\* for (let i = 0; i <= retries; i++).
RECURSIVE fetchAttempt(_, _, _)
fetchAttempt(malId, failures, i) ==
    IF i >= failures
    THEN \* res.ok: return await res.json()
         [err |-> "none", attempts |-> i + 1, lastErr |-> 0,
          data |-> Anime(malId, UpstreamData)]
    ELSE IF i = Retries
    THEN \* lastErr = e; break; throw lastErr
         [err |-> "HTTP", attempts |-> i + 1, lastErr |-> i + 1, data |-> Null]
    ELSE \* lastErr = e; await sleep(backoffMs * (i + 1)); i++
         fetchAttempt(malId, failures, i + 1)

\* a fetch that gives up after the first request
fetchWithRetry_NoRetry(malId, failures) ==
    IF failures > 0
    THEN [err |-> "HTTP", attempts |-> 1, lastErr |-> 1, data |-> Null]
    ELSE [err |-> "none", attempts |-> 1, lastErr |-> 0, data |-> Anime(malId, UpstreamData)]

fetchWithRetry(malId, failures) == fetchAttempt(malId, failures, 0)

\* start index that ignores --from-index when a checkpoint is read
StartIndex_SavedOnly(fromIndex, resume, saved) ==
    IF resume /\ IsSome(saved) /\ Get(saved) >= -1 THEN Get(saved) + 1 ELSE fromIndex

\* let startIndex = fromIndex; with --resume and a saved number >= -1,
\* Math.max(startIndex, saved + 1)
StartIndex(fromIndex, resume, saved) ==
    IF resume /\ IsSome(saved) /\ Get(saved) >= -1
    THEN Max(fromIndex, Get(saved) + 1)
    ELSE fromIndex

\* an index argument of Array.prototype.slice, relative to a list of len items
SliceBound(k, len) ==
    IF k < 0 THEN Max(len + k, 0) ELSE IF k > len THEN len ELSE k

\* idList.slice(start, end): the 0-based positions of the items taken, in order
slice(len, start, end) ==
    LET a == SliceBound(start, len)
        b == IF IsSome(end) THEN SliceBound(Get(end), len) ELSE len
    IN  [k \in 1..Max(b - a, 0) |-> a + k - 1]

\* skip branch that ignores --force-update
Skip_IgnoreForce(exists, forceUpdate) == Truthy(exists)

\* skip branch that is never taken
Skip_Never(exists, forceUpdate) == FALSE

\* if (exists && !forceUpdate)
Skip(exists, forceUpdate) == Truthy(exists) /\ ~forceUpdate

\* a loop that never waits
remaining_Never(elapsed) == 0

\* const remaining = Math.max(0, 1000 - elapsed)
remaining(elapsed) == Max(0, 1000 - elapsed)

\* the counters of a run
Counters(s) == [processed |-> s.processed, created |-> s.created, updated |-> s.updated,
                skipped |-> s.skipped, failed |-> s.failed]

\* iteration i of the loop begins: malId = slice[i], currentIndex = startIndex + i
ItemStart(window, startIndex, i, tbl, r, counters) ==
    IF i >= Len(window) THEN [malId |-> 0]
    ELSE LET malId == IdList[window[i + 1] + 1] IN
         [malId |-> malId, pos |-> window[i + 1], currentIndex |-> startIndex + i,
          start |-> 0,
          exists |-> Null, hit |-> FALSE, anime |-> Null, fetches |-> 0,
          fetchErr |-> 0, persist |-> "none",
          outcome |-> "pending", wrote |-> None,
          rowBefore |-> tbl[malId], cacheBefore |-> r[CacheKey(malId)], c0 |-> counters]

InitSync ==
    /\ now = 0
    /\ MemIdle
    /\ env \in SvcEnvValues
    /\ redis = [k \in Keys |-> None]
    /\ ModIdle
    /\ SvcIdle
    /\ SyncIdle
    /\ SqlIdle

\* the iteration before the current one: when it started, how long the item took,
\* how long the loop slept after it, how the item was classified, how many requests
\* its fetch made and which checkpoint it wrote
NoIteration == [start |-> 0, elapsed |-> 0, slept |-> 0, outcome |-> "none",
                fetches |-> 0, persist |-> "none", wrote |-> None]
\* the run before the current one, when it was cut short by the process terminating
NoCrash == [crashed |-> FALSE]

\* runSyncAnime(argv) up to the loop: the flags, the start index and the window;
\* upstream is what api.jikan.moe does during this run
RunSyncAnime(fromIndex, limit, forceUpdate, resume, upstream, bodies) ==
    /\ sync.pc \in {"idle", "done", "crashed"}
    /\ sync.runs < MaxRuns
    /\ LET saved == readProgress(progress)
           startIndex == StartIndex(fromIndex, resume, saved)
           window == slice(Len(IdList), startIndex,
                           IF IsSome(limit) THEN Some(startIndex + Get(limit)) ELSE None)
           zero == [processed |-> 0, created |-> 0, updated |-> 0, skipped |-> 0,
                    failed |-> 0]
       IN  sync' = [pc |-> IF Len(window) > 0 THEN "exists" ELSE "done",
                    runs |-> sync.runs + 1, allResume |-> sync.allResume /\ resume,
                    fromIndex |-> fromIndex, limit |-> limit, forceUpdate |-> forceUpdate,
                    resume |-> resume, saved |-> saved, startIndex |-> startIndex,
                    window |-> window, i |-> 0,
                    processed |-> 0, created |-> 0, updated |-> 0, skipped |-> 0,
                    failed |-> 0,
                    rows0 |-> rows, upstream |-> upstream, bodies |-> bodies,
                    ended |-> 0, attempted |-> <<>>, outcomes |-> <<>>,
                    last |-> NoIteration,
                    prev |-> IF sync.pc = "crashed"
                             THEN [crashed |-> TRUE, fromIndex |-> sync.fromIndex,
                                   startIndex |-> sync.startIndex,
                                   attempted |-> sync.attempted]
                             ELSE NoCrash,
                    item |-> ItemStart(window, startIndex, 0, rows, redis, zero)]
    /\ UNCHANGED <<sql, now, memVars, env, redis, modVars, svcVars, progress>>

\* a payload that is taken whether or not it has a `data` field
dataOrNull_Unchecked(json, hasData) == json.data

\* const anime = (json?.data ?? null): hasData says whether the payload has the field
dataOrNull(json, hasData) == IF hasData THEN json.data ELSE Null

\* a catch that counts the failed item as processed too
Sync_failed_Processed(s) ==
    [s EXCEPT !.failed = @ + 1, !.processed = @ + 1, !.item.outcome = "failed",
              !.pc = "checkpoint"]

\* a catch that goes on to the delay without the finally block
Sync_failed_NoCheckpoint(s) ==
    [s EXCEPT !.failed = @ + 1, !.item.outcome = "failed", !.pc = "sleep"]

\* catch (e): failed++; then the finally block
Sync_failed(s) ==
    [s EXCEPT !.failed = @ + 1, !.item.outcome = "failed", !.pc = "checkpoint"]

\* const start = Date.now(); let exists = await service.findById(malId); the skip
\* branch
Sync_exists ==
    /\ sync.pc = "exists"
    /\ LET f == AnimeService_findById(env, redis, rows, sync.item.malId, now)
           s == [sync EXCEPT !.item.start = now,
                             !.attempted = Append(@, sync.item.currentIndex),
                             !.item.exists = f.ret,
                             !.item.hit = StringTruthy(CachedNow(sync.item.malId))]
       IN  /\ redis' = f.redis
           /\ sync' = IF f.err # "none" THEN Sync_failed(s)
                      ELSE IF Skip(f.ret, sync.forceUpdate)
                      THEN [s EXCEPT !.skipped = @ + 1, !.processed = @ + 1,
                                     !.item.outcome = "skipped", !.pc = "checkpoint"]
                      ELSE [s EXCEPT !.pc = "fetch"]
    /\ UNCHANGED <<sql, now, memVars, env, modVars, svcVars, progress>>

\* const json = await fetchWithRetry(`https://api.jikan.moe/v4/anime/${malId}`);
\* const anime = json?.data ?? null; if (!anime) throw new Error(...)
Sync_fetch ==
    /\ sync.pc = "fetch"
    /\ LET json == fetchWithRetry(sync.item.malId, sync.upstream[sync.item.malId])
           anime == dataOrNull(json, sync.bodies[sync.item.malId])
           s == [sync EXCEPT !.item.fetches = json.attempts,
                             !.item.fetchErr = json.lastErr]
       IN  sync' = IF json.err # "none" \/ ~Truthy(anime)
                   THEN Sync_failed(s)
                   ELSE [s EXCEPT !.item.anime = anime, !.pc = "persist"]
    /\ UNCHANGED <<sql, now, memVars, env, redis, modVars, svcVars, progress>>

\* if (exists) await service.update(malId, anime), updated++; else await
\* service.create(anime), created++; then processed++
Sync_persist ==
    /\ sync.pc = "persist"
    /\ LET o == IF Truthy(sync.item.exists)
                THEN AnimeService_update(env, redis, rows, sync.item.malId,
                                         sync.item.anime, now)
                ELSE AnimeService_create(env, redis, rows, sync.item.anime, now)
           persist == IF Truthy(sync.item.exists) THEN "update" ELSE "create"
           s == [sync EXCEPT !.item.persist = persist]
       IN  /\ rows' = o.rows
           /\ redis' = o.redis
           /\ sync' = IF o.err # "none" THEN Sync_failed(s)
                      ELSE IF persist = "update"
                      THEN [s EXCEPT !.updated = @ + 1, !.processed = @ + 1,
                                     !.item.outcome = "updated", !.pc = "checkpoint"]
                      ELSE [s EXCEPT !.created = @ + 1, !.processed = @ + 1,
                                     !.item.outcome = "created", !.pc = "checkpoint"]
    /\ UNCHANGED <<sql, now, memVars, env, modVars, calls, prev, busy, progress>>

\* finally: await writeProgress("anime", currentIndex)
Sync_checkpoint ==
    /\ sync.pc = "checkpoint"
    /\ progress' = writeProgress(progress, sync.item.currentIndex)
    /\ sync' = [sync EXCEPT !.item.wrote = Some(sync.item.currentIndex), !.pc = "sleep"]
    /\ UNCHANGED <<sql, now, memVars, env, redis, modVars, svcVars>>

\* an error of writeProgress that leaves the finally block
Sync_swallow_Rethrow(s) == [s EXCEPT !.pc = "crashed"]

\* finally: try { await writeProgress(...) } catch { }: the error is dropped and the
\* loop body goes on to the delay
Sync_swallow(s) == [s EXCEPT !.pc = "sleep"]

\* finally: writeProgress rejects (the file or its directory cannot be written).
\* fs.writeFile may have truncated the file before it failed
Sync_checkpoint_rejects ==
    /\ sync.pc = "checkpoint"
    /\ progress' \in {progress, Torn}
    /\ sync' = Sync_swallow(sync)
    /\ UNCHANGED <<sql, now, memVars, env, redis, modVars, svcVars>>

\* const elapsed = Date.now() - start; if (remaining > 0) await sleep(remaining);
\* i++; after the last item the run is done
Sync_sleep ==
    /\ sync.pc = "sleep"
    /\ LET i == sync.i + 1
           elapsed == now - sync.item.start
       IN  /\ now' = now + remaining(elapsed)
           /\ sync' = [sync EXCEPT
                        !.i = i, !.ended = @ + 1,
                        !.outcomes = Append(@, [malId |-> sync.item.malId,
                                                outcome |-> sync.item.outcome]),
                        !.last = [start |-> sync.item.start, elapsed |-> elapsed,
                                  slept |-> remaining(elapsed),
                                  outcome |-> sync.item.outcome,
                                  fetches |-> sync.item.fetches,
                                  persist |-> sync.item.persist,
                                  wrote |-> sync.item.wrote],
                        !.pc = IF i < Len(sync.window) THEN "exists" ELSE "done",
                        !.item = IF i < Len(sync.window)
                                 THEN ItemStart(sync.window, sync.startIndex, i, rows,
                                                redis, Counters(sync))
                                 ELSE @]
    /\ UNCHANGED <<sql, memVars, env, redis, modVars, svcVars, progress>>

NextSync ==
    \/ \E fromIndex \in FromIndexes, limit \in Limits, forceUpdate \in BOOLEAN,
          resume \in BOOLEAN, upstream \in Upstreams :
            RunSyncAnime(fromIndex, limit, forceUpdate, resume, upstream, WithData)
    \/ Sync_exists
    \/ Sync_fetch
    \/ Sync_persist
    \/ Sync_checkpoint
    \/ Sync_sleep
    \/ Elapse

SpecSync == InitSync /\ [][NextSync]_vars

----------------------------------------------------------------------------
(* The sync command when the host process may terminate: SpecCrash *)

\* --from-index of the runs that may be cut short
CrashFromIndexes == {0, 1}

\* the process terminates inside the loop. While fs.writeFile(PROGRESS_FILE, ...) is
\* under way the file is either still the old one (not opened yet) or truncated; a
\* termination after the write is a termination at the delay
Sync_crash ==
    /\ sync.pc \in {"exists", "fetch", "persist", "checkpoint", "sleep"}
    /\ progress' \in IF sync.pc = "checkpoint" THEN {progress, Torn} ELSE {progress}
    /\ sync' = [sync EXCEPT !.pc = "crashed"]
    /\ UNCHANGED <<sql, now, memVars, env, redis, modVars, svcVars>>

NextCrash ==
    \/ \E fromIndex \in CrashFromIndexes, limit \in Limits, forceUpdate \in BOOLEAN,
          resume \in BOOLEAN, upstream \in Upstreams :
            RunSyncAnime(fromIndex, limit, forceUpdate, resume, upstream, WithData)
    \/ Sync_exists
    \/ Sync_fetch
    \/ Sync_persist
    \/ Sync_checkpoint
    \/ Sync_sleep
    \/ Sync_crash

SpecCrash == InitSync /\ [][NextCrash]_vars

----------------------------------------------------------------------------
(* The sync command against a clock of half seconds: SpecPace *)

\* half a second passes while an item is being processed (the existence check, the
\* fetch with its backoff, the persist step, the checkpoint write): up to 1500 ms
\* per item
Work ==
    /\ sync.pc \in {"fetch", "persist", "checkpoint", "sleep"}
    /\ now - sync.item.start < 1500
    /\ now' = now + 500
    /\ UNCHANGED <<sql, syncVars, memVars, env, redis, modVars, svcVars>>

\* the upstream during one of these runs: per id, the requests that fail, up to the
\* last request fetchWithRetry makes and past it
RetryUpstreams == [Ids -> {0, 1, Retries, Retries + 1}]

NextPace ==
    \/ \E forceUpdate \in BOOLEAN, upstream \in RetryUpstreams :
            RunSyncAnime(0, None, forceUpdate, FALSE, upstream, WithData)
    \/ Sync_exists
    \/ Sync_fetch
    \/ Sync_persist
    \/ Sync_checkpoint
    \/ Sync_sleep
    \/ Work

SpecPace == InitSync /\ [][NextPace]_vars

----------------------------------------------------------------------------
(* The sync command against payloads without a data field: SpecBody *)

\* the upstream during one of these runs: per id, either the first request succeeds
\* or every request fails
BodyUpstreams == [Ids -> {0, Retries + 1}]

NextBody ==
    \/ \E fromIndex \in CrashFromIndexes, limit \in Limits, forceUpdate \in BOOLEAN,
          resume \in BOOLEAN, upstream \in BodyUpstreams, bodies \in Bodies :
            RunSyncAnime(fromIndex, limit, forceUpdate, resume, upstream, bodies)
    \/ Sync_exists
    \/ Sync_fetch
    \/ Sync_persist
    \/ Sync_checkpoint
    \/ Sync_sleep

SpecBody == InitSync /\ [][NextBody]_vars

----------------------------------------------------------------------------
(* The sync command when the progress file cannot always be written: SpecFaults *)

NextFaults ==
    \/ \E fromIndex \in CrashFromIndexes, limit \in Limits, forceUpdate \in BOOLEAN,
          resume \in BOOLEAN, upstream \in BodyUpstreams :
            RunSyncAnime(fromIndex, limit, forceUpdate, resume, upstream, WithData)
    \/ Sync_exists
    \/ Sync_fetch
    \/ Sync_persist
    \/ Sync_checkpoint
    \/ Sync_checkpoint_rejects
    \/ Sync_sleep

SpecFaults == InitSync /\ [][NextFaults]_vars

----------------------------------------------------------------------------
(* fetchWithRetry, request by request: SpecFetch *)

\* the retries argument: none, one, and the default
RetryArgs == {0, 1, Retries}
\* the backoffMs argument: the default 500, and 100
BackoffArgs == {500, 100}
\* how many calls of fetchWithRetry are followed
MaxCalls == 3

\* a delay that does not grow
backoff_Constant(backoffMs, i) == backoffMs

\* sleep(backoffMs * (i + 1))
backoff(backoffMs, i) == backoffMs * (i + 1)

\* no call of fetchWithRetry has been made
NoFetch == [pc |-> "idle", calls |-> 0]

InitFetch ==
    /\ now = 0
    /\ MemIdle
    /\ env = "undefined"
    /\ redis = [k \in Keys |-> None]
    /\ ModIdle
    /\ SvcIdle
    /\ progress = None
    /\ sync = NoFetch
    /\ SqlIdle

\* fetchWithRetry(url, retries, backoffMs): let lastErr; i = 0. log is what the call
\* has done so far, in order: each request with its time, each sleep with its delay
FetchWithRetry(retries, backoffMs) ==
    /\ sync.pc \in {"idle", "returned", "thrown"}
    /\ sync.calls < MaxCalls
    /\ sync' = [pc |-> "request", calls |-> sync.calls + 1, retries |-> retries,
                backoffMs |-> backoffMs, i |-> 0, lastErr |-> 0, log |-> <<>>]
    /\ UNCHANGED <<sql, now, memVars, env, redis, modVars, svcVars, progress>>

\* request i: res.ok, return await res.json()
Fetch_ok ==
    /\ sync.pc = "request"
    /\ sync' = [sync EXCEPT !.pc = "returned",
                            !.log = Append(@, [op |-> "request", i |-> sync.i,
                                               ok |-> TRUE, at |-> now])]
    /\ UNCHANGED <<sql, now, memVars, env, redis, modVars, svcVars, progress>>

\* request i fails (fetch rejects, !res.ok, or res.json() rejects): lastErr = e;
\* if (i === retries) break, and throw lastErr; otherwise on to the sleep
Fetch_fails ==
    /\ sync.pc = "request"
    /\ sync' = [sync EXCEPT !.pc = IF sync.i = sync.retries THEN "thrown" ELSE "backoff",
                            !.lastErr = sync.i + 1,
                            !.log = Append(@, [op |-> "request", i |-> sync.i,
                                               ok |-> FALSE, at |-> now])]
    /\ UNCHANGED <<sql, now, memVars, env, redis, modVars, svcVars, progress>>

\* await sleep(backoffMs * (i + 1)); i++
Fetch_backoff ==
    /\ sync.pc = "backoff"
    /\ LET ms == backoff(sync.backoffMs, sync.i) IN
       /\ now' = now + ms
       /\ sync' = [sync EXCEPT !.pc = "request", !.i = @ + 1,
                               !.log = Append(@, [op |-> "sleep", ms |-> ms])]
    /\ UNCHANGED <<sql, memVars, env, redis, modVars, svcVars, progress>>

NextFetch ==
    \/ \E retries \in RetryArgs, backoffMs \in BackoffArgs :
            FetchWithRetry(retries, backoffMs)
    \/ Fetch_ok
    \/ Fetch_fails
    \/ Fetch_backoff

SpecFetch == InitFetch /\ [][NextFetch]_vars

----------------------------------------------------------------------------
(* QueryToSQL and CountQueryToSQL (database/helpers/query-to-sql.ts): SpecSql *)

\* JavaScript values of the query options: undefined, a string, a number. A number
\* is kept as twice its value, so that 1.5 is a number that is not an integer.
Undefined == [t |-> "undefined"]
Str(s) == [t |-> "string", s |-> s]
Num(n) == [t |-> "number", twice |-> 2 * n]
OneAndAHalf == [t |-> "number", twice |-> 3]
NumberValue(v) == v.twice \div 2
\* if (v) for a string or undefined
StrTruthy(v) == v.t = "string" /\ v.s # ""

\* the tables of the model and what PRAGMA table_info returns for them: the [anime]
\* table (some of its columns), and a table whose only title column is not a text
\* column
Tables == {"anime", "producers"}
getColumns(tableName) ==
    IF tableName = "anime"
    THEN <<[name |-> "mal_id", type |-> "INT"], [name |-> "title", type |-> "TEXT"],
           [name |-> "title_english", type |-> "text"], [name |-> "status", type |-> "TEXT"]>>
    ELSE <<[name |-> "mal_id", type |-> "INT"], [name |-> "name", type |-> "TEXT"],
           [name |-> "title_count", type |-> "INT"]>>

\* the rows of the tables
TableRows(tableName) ==
    IF tableName = "anime"
    THEN {[mal_id |-> Num(1), title |-> Str("naruto"), title_english |-> Str("naruto"),
           status |-> Str("airing")],
          [mal_id |-> Num(2), title |-> Str("bleach"), title_english |-> Str("bleach"),
           status |-> Str("finished")],
          [mal_id |-> Num(3), title |-> Str("boruto"), title_english |-> Str("naruto next"),
           status |-> Str("airing")]}
    ELSE {[mal_id |-> Num(1), name |-> Str("pierrot"), title_count |-> Num(2)]}

\* the keys and values of query.filters: two columns of [anime] and a key that is no
\* column; a value that is undefined, a status, and a value written as SQL
FilterKeys == {"status", "title", "1=1 --"}
FilterValues == {Undefined, Str("airing"), Str("' OR 1=1 --")}
FilterEntries == [key : FilterKeys, value : FilterValues]
\* Object.entries(query.filters): up to two entries, in insertion order
Filters ==
    {<<>>} \cup {<<f>> : f \in FilterEntries}
           \cup {e \in FilterEntries \X FilterEntries : e[1].key # e[2].key}
\* the QueryOptions of the model
SqlQueries ==
    [filters : Filters,
     search : {Undefined, Str(""), Str("naru")},
     orderBy : {Undefined, Str("title"), Str("1=1 --")},
     orderDirection : {Undefined, Str("desc")},
     limit : {Undefined, Num(-1), Num(0), Num(2), OneAndAHalf},
     page : {Undefined, Num(-1), Num(0), Num(1), Num(3), OneAndAHalf}]

\* A statement's text is the sequence of the pieces the code appends: SQL text as
\* written in the source, and identifiers put between backticks by quoteIdent (no
\* name of the model holds a backtick to double).
Sql(text) == [text |-> text]
quoteIdent(name) == [ident |-> name]

\* colNames.has anything
has_Anything(colNames, key) == TRUE

\* colNames.has(key)
has(colNames, key) == key \in colNames

\* a check that takes 0 for no number
isPositiveInt_Strict(n) == n.t = "number" /\ n.twice % 2 = 0 /\ n.twice > 0

\* Number.isInteger(n) && n >= 0
isPositiveInt(n) == n.t = "number" /\ n.twice % 2 = 0 /\ n.twice >= 0

\* String.prototype.toUpperCase on the directions of the model
toUpperCase(s) == IF s = "desc" THEN "DESC" ELSE IF s = "text" THEN "TEXT" ELSE s
\* col.name.includes("title") on the column names of the model
includesTitle(name) == name \in {"title", "title_english", "title_count"}
\* ["TEXT", "VARCHAR", "CHAR", "CLOB"].includes(col.type.toUpperCase()) &&
\* col.name.includes("title")
isTitleText(col) ==
    toUpperCase(col.type) \in {"TEXT", "VARCHAR", "CHAR", "CLOB"} /\ includesTitle(col.name)

\* Array.prototype.join over pieces
RECURSIVE join(_, _)
join(items, separator) ==
    IF Len(items) = 0 THEN <<>>
    ELSE IF Len(items) = 1 THEN items[1]
    ELSE items[1] \o <<Sql(separator)>> \o join(Tail(items), separator)

QueryToSQL(query, tableName) ==
    LET cols == getColumns(tableName)
        colNames == {cols[i].name : i \in DOMAIN cols}
        sql0 == <<Sql("SELECT * FROM "), quoteIdent(tableName)>>
        \* value !== undefined && colNames.has(key)
        kept == SelectSeq(query.filters,
                          LAMBDA f : f.value.t # "undefined" /\ has(colNames, f.key))
        filters == [i \in DOMAIN kept |-> <<quoteIdent(kept[i].key), Sql(" = ?")>>]
        params1 == [i \in DOMAIN kept |-> kept[i].value]
        sql1 == IF Len(filters) > 0
                THEN sql0 \o <<Sql(" WHERE ")>> \o join(filters, " AND ")
                ELSE sql0
        textCols == SelectSeq(cols, isTitleText)
        searching == StrTruthy(query.search) /\ Len(textCols) > 0
        searchConditions ==
            join([i \in DOMAIN textCols |-> <<quoteIdent(textCols[i].name), Sql(" LIKE ?")>>],
                 " OR ")
        sql2 == IF searching
                THEN sql1 \o <<Sql(IF Len(filters) > 0 THEN " AND" ELSE " WHERE")>>
                          \o <<Sql(" (")>> \o searchConditions \o <<Sql(")")>>
                ELSE sql1
        params2 == IF searching
                   THEN params1 \o [i \in DOMAIN textCols |->
                                       Str("%" \o query.search.s \o "%")]
                   ELSE params1
        ordered == StrTruthy(query.orderBy) /\ has(colNames, query.orderBy.s)
        dir == IF query.orderDirection.t = "string"
                  /\ toUpperCase(query.orderDirection.s) = "DESC"
               THEN "DESC" ELSE "ASC"
        sql3 == IF ordered
                THEN sql2 \o <<Sql(" ORDER BY "), quoteIdent(query.orderBy.s), Sql(" " \o dir)>>
                ELSE sql2
        limited == isPositiveInt(query.limit)
        paged == limited /\ isPositiveInt(query.page)
        sql4 == IF limited THEN sql3 \o <<Sql(" LIMIT ?")>> ELSE sql3
        params4 == IF limited THEN Append(params2, query.limit) ELSE params2
        sql5 == IF paged THEN sql4 \o <<Sql(" OFFSET ?")>> ELSE sql4
        params5 == IF paged
                   THEN Append(params4, Num((NumberValue(query.page) - 1)
                                                * NumberValue(query.limit)))
                   ELSE params4
    IN  [sql |-> sql5, params |-> params5]

\* a count query that leaves the search out
CountQueryToSQL_FiltersOnly(query, tableName) ==
    LET cols == getColumns(tableName)
        colNames == {cols[i].name : i \in DOMAIN cols}
        kept == SelectSeq(query.filters,
                          LAMBDA f : f.value.t # "undefined" /\ has(colNames, f.key))
        filters == [i \in DOMAIN kept |-> <<quoteIdent(kept[i].key), Sql(" = ?")>>]
    IN  [sql |-> <<Sql("SELECT COUNT(*) as count FROM "), quoteIdent(tableName)>>
                    \o (IF Len(filters) > 0
                        THEN <<Sql(" WHERE ")>> \o join(filters, " AND ") ELSE <<>>),
         params |-> [i \in DOMAIN kept |-> kept[i].value]]

CountQueryToSQL(query, tableName) ==
    LET cols == getColumns(tableName)
        colNames == {cols[i].name : i \in DOMAIN cols}
        sql0 == <<Sql("SELECT COUNT(*) as count FROM "), quoteIdent(tableName)>>
        kept == SelectSeq(query.filters,
                          LAMBDA f : f.value.t # "undefined" /\ has(colNames, f.key))
        filters == [i \in DOMAIN kept |-> <<quoteIdent(kept[i].key), Sql(" = ?")>>]
        params1 == [i \in DOMAIN kept |-> kept[i].value]
        sql1 == IF Len(filters) > 0
                THEN sql0 \o <<Sql(" WHERE ")>> \o join(filters, " AND ")
                ELSE sql0
        textCols == SelectSeq(cols, isTitleText)
        searching == StrTruthy(query.search) /\ Len(textCols) > 0
        searchConditions ==
            join([i \in DOMAIN textCols |-> <<quoteIdent(textCols[i].name), Sql(" LIKE ?")>>],
                 " OR ")
        sql2 == IF searching
                THEN sql1 \o <<Sql(IF Len(filters) > 0 THEN " AND" ELSE " WHERE")>>
                          \o <<Sql(" (")>> \o searchConditions \o <<Sql(")")>>
                ELSE sql1
        params2 == IF searching
                   THEN params1 \o [i \in DOMAIN textCols |->
                                       Str("%" \o query.search.s \o "%")]
                   ELSE params1
    IN  [sql |-> sql2, params |-> params2]

\* SQLite on a statement built above. The positions of the placeholders of a kind,
\* and the number of the placeholder at position i among all of them
Placeholders(statement, text) == {i \in DOMAIN statement.sql : statement.sql[i] = Sql(text)}
ParamAt(statement, i) ==
    statement.params[Cardinality({j \in 1..i : statement.sql[j] \in
                        {Sql(" = ?"), Sql(" LIKE ?"), Sql(" LIMIT ?"), Sql(" OFFSET ?")}})]
\* cell LIKE pattern, on the texts of the model
Like(cell, pattern) ==
    /\ cell.t = "string" /\ pattern.t = "string"
    /\ pattern.s = "%naru%" /\ cell.s \in {"naruto", "naruto next"}
\* every identifier compared is a column of the table ("no such column" otherwise)
Prepared(statement, tableName) ==
    LET cols == getColumns(tableName) IN
    \A i \in Placeholders(statement, " = ?") \cup Placeholders(statement, " LIKE ?") :
        \E k \in DOMAIN cols : statement.sql[i - 1] = quoteIdent(cols[k].name)
\* the rows the WHERE clause keeps: every equality, and one of the LIKEs when there
\* are any
Selected(statement, tableName) ==
    LET eqs == Placeholders(statement, " = ?")
        likes == Placeholders(statement, " LIKE ?")
        cell(row, i) == row[statement.sql[i - 1].ident]
    IN  {row \in TableRows(tableName) :
            /\ \A i \in eqs : cell(row, i) = ParamAt(statement, i)
            /\ likes # {} => \E i \in likes : Like(cell(row, i), ParamAt(statement, i))}
\* stmt.all(...params).length: LIMIT and OFFSET applied (a negative OFFSET counts as 0);
\* -1 when the statement is refused
stmt_all(statement, tableName) ==
    IF ~Prepared(statement, tableName) THEN -1
    ELSE LET n == Cardinality(Selected(statement, tableName))
             limits == Placeholders(statement, " LIMIT ?")
             offsets == Placeholders(statement, " OFFSET ?")
             offset == IF offsets = {} THEN 0
                       ELSE Max(0, NumberValue(ParamAt(statement, CHOOSE i \in offsets : TRUE)))
             limit == IF limits = {} THEN n
                      ELSE NumberValue(ParamAt(statement, CHOOSE i \in limits : TRUE))
         IN  Max(0, IF n - offset < limit THEN n - offset ELSE limit)
\* stmt.get(...params).count; -1 when the statement is refused
stmt_get(statement, tableName) ==
    IF ~Prepared(statement, tableName) THEN -1
    ELSE Cardinality(Selected(statement, tableName))

InitSql ==
    /\ now = 0
    /\ MemIdle
    /\ env = "undefined"
    /\ redis = [k \in AllKeys |-> None]
    /\ ModIdle
    /\ SvcIdle
    /\ SyncIdle
    /\ sql \in [query : SqlQueries, table : Tables, select : {None}, count : {None},
                found : {0}, counted : {0}]

\* findByQuery(options): QueryToSQL, then stmt.all(...query.params)
FindRows ==
    /\ sql.table # "none" /\ sql.select = None
    /\ LET query == QueryToSQL(sql.query, sql.table) IN
       sql' = [sql EXCEPT !.select = Some(query), !.found = stmt_all(query, sql.table)]
    /\ UNCHANGED <<now, memVars, env, redis, modVars, svcVars, syncVars>>

\* countByQuery(options): CountQueryToSQL, then stmt.get(...query.params).count
CountRows ==
    /\ sql.table # "none" /\ sql.count = None
    /\ LET query == CountQueryToSQL(sql.query, sql.table) IN
       sql' = [sql EXCEPT !.count = Some(query), !.counted = stmt_get(query, sql.table)]
    /\ UNCHANGED <<now, memVars, env, redis, modVars, svcVars, syncVars>>

NextSql == FindRows \/ CountRows

SpecSql == InitSql /\ [][NextSql]_vars

----------------------------------------------------------------------------
(* An Anime through the row form (animeValues, toAnime): SpecRow *)

\* JavaScript values of the entity and of the row: null, booleans, arrays, the JSON
\* text of an array, and NaN (numbers, strings and undefined as above)
JsNull == [t |-> "null"]
Bool(b) == [t |-> "boolean", b |-> b]
Arr(items) == [t |-> "array", items |-> items]
JsonText(items) == [t |-> "string", s |-> "json", json |-> items]
NaN == [t |-> "NaN"]
\* v == null
Nullish(v) == v.t \in {"null", "undefined"}

\* one entry of titles, one genre
TitleEntry == [type |-> Str("Default"), title |-> Str("Naruto")]
GenreEntry == [mal_id |-> Num(1), name |-> Str("Action")]

\* the Anime entities of the model: one field for each pair of conversions
Entities ==
    [mal_id : {Num(1)},
     url : {Str("u")},
     image_url : {JsNull, Str("i")},
     approved : {Bool(TRUE), Bool(FALSE)},
     titles : {Arr(<<>>), Arr(<<TitleEntry>>)},
     title : {Str(""), Str("Naruto")},
     title_english : {JsNull, Str(""), Str("Naruto")},
     title_synonyms : {Arr(<<>>), Arr(<<Str("NARUTO")>>)},
     episodes : {JsNull, Num(0), Num(220)},
     airing : {Bool(TRUE), Bool(FALSE)},
     scored_by : {Num(0), Num(5)},
     genres : {Undefined, Arr(<<>>), Arr(<<GenreEntry>>)}]

\* const j = (v) => v === undefined ? null : v === null ? null : JSON.stringify(v)
param_j(v) == IF Nullish(v) THEN JsNull ELSE JsonText(v.items)
\* const s = (v) => v ?? null; const n = (v) => v ?? null
param_s(v) == IF Nullish(v) THEN JsNull ELSE v
param_n(v) == IF Nullish(v) THEN JsNull ELSE v
\* const b = (v) => v ? 1 : 0
param_b(v) == IF v.t = "boolean" /\ v.b THEN Num(1) ELSE Num(0)
\* x ?? []
orEmpty(v) == IF Nullish(v) THEN Arr(<<>>) ELSE v

\* animeValues(a): the parameter of each column
animeValues(a) ==
    [mal_id |-> param_n(a.mal_id),
     url |-> param_s(a.url),
     image_url |-> param_s(a.image_url),
     approved |-> param_b(a.approved),
     titles |-> param_j(orEmpty(a.titles)),
     title |-> param_s(a.title),
     title_english |-> param_s(a.title_english),
     title_synonyms |-> param_j(orEmpty(a.title_synonyms)),
     episodes |-> param_n(a.episodes),
     airing |-> param_b(a.airing),
     scored_by |-> param_n(a.scored_by),
     genres |-> param_j(orEmpty(a.genres))]

\* parseJSON(value, fallback)
parseJSON(value, fallback) ==
    IF Nullish(value) THEN fallback
    ELSE IF value.t = "array" THEN value
    ELSE IF value.t # "string" \/ value.s = "" THEN fallback
    ELSE IF "json" \in DOMAIN value THEN Arr(value.json)
    ELSE fallback

\* toBool(value): value === true || value === 1 || value === "1"
toBool(value) == Bool(value = Bool(TRUE) \/ value = Num(1) \/ value = Str("1"))

\* Number(value) for the values of the model
Number(value) ==
    IF value.t = "number" THEN value
    ELSE IF value.t = "null" THEN Num(0)
    ELSE IF value.t = "boolean" THEN (IF value.b THEN Num(1) ELSE Num(0))
    ELSE IF value = Str("") THEN Num(0)
    ELSE NaN

\* toNumber(value, fallback = 0)
toNumber(value) == IF Number(value) = NaN THEN Num(0) ELSE Number(value)

\* toNullableNumber(value)
toNullableNumber(value) ==
    IF Nullish(value) THEN JsNull
    ELSE IF Number(value) = NaN THEN JsNull ELSE Number(value)

\* nullableString(value): String(value), or null when it is empty
nullableString(value) ==
    IF Nullish(value) THEN JsNull
    ELSE IF value = Str("") THEN JsNull
    ELSE value

\* x ?? ""
orEmptyString(v) == IF Nullish(v) THEN Str("") ELSE v

\* parseTitles(raw, fallbackTitle)
parseTitles(raw, fallbackTitle) ==
    LET arr == parseJSON(raw, Arr(<<>>))
        normalized ==
            [i \in DOMAIN arr.items |->
                [type |-> IF "type" \in DOMAIN arr.items[i] THEN arr.items[i].type
                          ELSE Str("Default"),
                 title |-> IF "title" \in DOMAIN arr.items[i] THEN arr.items[i].title
                           ELSE fallbackTitle]]
    IN  IF Len(normalized) = 0
        THEN Arr(<<[type |-> Str("Default"), title |-> fallbackTitle]>>)
        ELSE Arr(normalized)

\* row.toAnime()
toAnime(row) ==
    [mal_id |-> toNumber(row.mal_id),
     url |-> orEmptyString(nullableString(row.url)),
     image_url |-> nullableString(row.image_url),
     approved |-> toBool(row.approved),
     titles |-> parseTitles(row.titles, orEmptyString(nullableString(row.title))),
     title |-> orEmptyString(nullableString(row.title)),
     title_english |-> nullableString(row.title_english),
     title_synonyms |-> parseJSON(row.title_synonyms, Arr(<<>>)),
     episodes |-> toNullableNumber(row.episodes),
     airing |-> toBool(row.airing),
     scored_by |-> toNumber(row.scored_by),
     genres |-> parseJSON(row.genres, Arr(<<>>))]

\* an entity is about to be written
InitRow ==
    /\ now = 0
    /\ MemIdle
    /\ env = "undefined"
    /\ redis = [k \in AllKeys |-> None]
    /\ ModIdle
    /\ SvcIdle
    /\ SyncIdle
    /\ sql \in [table : {"anime"}, entity : Entities, row : {None}, back : {None}]

\* entity.toAnimeInsertSQL(): the parameters of the INSERT, which become the row
ToAnimeInsertSQL ==
    /\ sql.table # "none" /\ sql.row = None
    /\ sql' = [sql EXCEPT !.row = Some(animeValues(sql.entity))]
    /\ UNCHANGED <<now, memVars, env, redis, modVars, svcVars, syncVars>>

\* row.toAnime() on the row read back
ToAnime ==
    /\ sql.table # "none" /\ IsSome(sql.row) /\ sql.back = None
    /\ sql' = [sql EXCEPT !.back = Some(toAnime(Get(sql.row)))]
    /\ UNCHANGED <<now, memVars, env, redis, modVars, svcVars, syncVars>>

NextRow == ToAnimeInsertSQL \/ ToAnime

SpecRow == InitRow /\ [][NextRow]_vars

----------------------------------------------------------------------------
(* The cache key and the statement of two queries (QueryToString, QueryToSQL): SpecKey *)

\* the QueryOptions that are compared: no filter, a status filter with one of two
\* values; with and without a search text, an order and a direction; limit absent, 0
\* and 2; page absent, 0 and 3
KeyQueries ==
    [filters : {<<>>, <<[key |-> "status", value |-> Str("airing")]>>,
                <<[key |-> "status", value |-> Str("' OR 1=1 --")]>>},
     search : {Undefined, Str("naru")},
     orderBy : {Undefined, Str("title")},
     orderDirection : {Undefined, Str("desc")},
     limit : {Undefined, Num(0), Num(2)},
     page : {Undefined, Num(0), Num(3)}]

\* if (v) for a number, a string or undefined
JsTruthy(v) ==
    IF v.t = "number" THEN v.twice # 0 ELSE IF v.t = "string" THEN v.s # "" ELSE FALSE

\* `${v}` for a number or a string
TemplateText(v) ==
    IF v.t = "string" THEN v.s
    ELSE IF v.twice % 2 = 0 THEN ToString(NumberValue(v))
    ELSE ToString(NumberValue(v)) \o ".5"

\* encodeURIComponent on the filter values of the model
encodeURIComponent(v) ==
    IF v = Str("' OR 1=1 --") THEN "'%20OR%201%3D1%20--" ELSE TemplateText(v)

\* the filter part of QueryToString: for (const [key, value] of Object.entries(...))
RECURSIVE filterString(_)
filterString(filters) ==
    IF Len(filters) = 0 THEN ""
    ELSE (IF Head(filters).value.t # "undefined"
          THEN "&" \o Head(filters).key \o "=" \o encodeURIComponent(Head(filters).value)
          ELSE "")
         \o filterString(Tail(filters))

\* QueryToString(query) over all the options: page, limit, orderBy and orderDirection
\* when truthy, then the filters
queryString(query) ==
    (IF JsTruthy(query.page) THEN "&page=" \o TemplateText(query.page) ELSE "")
    \o (IF JsTruthy(query.limit) THEN "&limit=" \o TemplateText(query.limit) ELSE "")
    \o (IF JsTruthy(query.orderBy) THEN "&order_by=" \o TemplateText(query.orderBy) ELSE "")
    \o (IF JsTruthy(query.orderDirection)
        THEN "&order_direction=" \o TemplateText(query.orderDirection) ELSE "")
    \o filterString(query.filters)

\* let cacheKey = `anime_${QueryToString(options)}`
cacheKey(options) == "anime_" \o queryString(options)

\* two calls of findByQuery are about to be made, with options a and b
InitKey ==
    /\ now = 0
    /\ MemIdle
    /\ env = "undefined"
    /\ redis = [k \in AllKeys |-> None]
    /\ ModIdle
    /\ SvcIdle
    /\ SyncIdle
    /\ sql \in [table : {"anime"}, a : KeyQueries, b : KeyQueries, keys : {None},
                statements : {None}]

\* AnimeService.findByQuery builds the cache key of each call
BuildKeys ==
    /\ sql.table # "none" /\ sql.keys = None
    /\ sql' = [sql EXCEPT !.keys = Some([a |-> cacheKey(sql.a), b |-> cacheKey(sql.b)])]
    /\ UNCHANGED <<now, memVars, env, redis, modVars, svcVars, syncVars>>

\* AnimeRepository.findByQuery builds the statement of each call
BuildStatements ==
    /\ sql.table # "none" /\ sql.statements = None
    /\ sql' = [sql EXCEPT !.statements = Some([a |-> QueryToSQL(sql.a, sql.table),
                                               b |-> QueryToSQL(sql.b, sql.table)])]
    /\ UNCHANGED <<now, memVars, env, redis, modVars, svcVars, syncVars>>

NextKey == BuildKeys \/ BuildStatements

SpecKey == InitKey /\ [][NextKey]_vars

----------------------------------------------------------------------------
(* Properties of one MemoryCache instance *)

\* the last set of key, when no delete or clear followed it
LastWrite(key) == Get(written[key])
HasTtl(w) == IsSome(w.ttl) /\ Get(w.ttl) > 0
ExpiryOf(w) == w.at + Get(w.ttl) * 1000

\* C3: after set(k, v, ttl) with ttl > 0 at time t0, not followed by another set,
\* delete or clear of k, a get(k) at a time before t0 + ttl*1000 ms returns v and a
\* get(k) at or after that time returns null, whether or not the timer has fired.
C3_TtlExpiry ==
    (memLast.op = "get" /\ IsSome(written[memLast.key]) /\ HasTtl(LastWrite(memLast.key)))
        => LET w == LastWrite(memLast.key) IN
           /\ now < ExpiryOf(w) => memLast.ret = w.value
           /\ now >= ExpiryOf(w) => memLast.ret = NoString

\* a get 1.5 s after set(k, v, 1) returned null
C3_Witness ==
    /\ memLast.op = "get"
    /\ IsSome(written[memLast.key])
    /\ LastWrite(memLast.key).ttl = Some(1)
    /\ now = LastWrite(memLast.key).at + 1500
    /\ memLast.ret = NoString

\* C4: the entry written by the latest set(k, v2, ttl2) is in the map with value v2
\* until its own expiry (never, when ttl2 is omitted or 0), a delete or a clear: no
\* timer of an earlier set removes it.
C4_OldTimerNeverRemoves ==
    \A k \in Keys :
        (IsSome(written[k]) /\ (HasTtl(LastWrite(k)) => now < ExpiryOf(LastWrite(k))))
            => /\ IsSome(mem.store[k])
               /\ Get(mem.store[k]).value = LastWrite(k).value

\* a set replaced an entry whose timer was pending, the old timer's due time has
\* passed, and the new value is still in the map
C4_Witness ==
    \E k \in Keys :
        /\ IsSome(written[k])
        /\ IsSome(LastWrite(k).oldDue)
        /\ now >= Get(LastWrite(k).oldDue)
        /\ IsSome(mem.store[k])
        /\ Get(mem.store[k]).value = LastWrite(k).value

----------------------------------------------------------------------------
(* Properties of the cache module *)

ModCalls == {"setCache", "getCache", "deleteCache", "clearCache"}
\* the last setCache of key, when no deleteCache or clearCache followed it
LastSetCache(key) == Get(expect[key])

\* C2: with CACHE_STORE = memory, getCache(k) returns the value of the most recent
\* setCache(k, v) when that entry has not since been deleted, cleared or expired, and
\* null otherwise.
C2_GetReturnsLastSet ==
    (env = "memory" /\ modLast.op = "getCache")
        => IF IsSome(expect[modLast.key])
              /\ (HasTtl(LastSetCache(modLast.key)) => now < ExpiryOf(LastSetCache(modLast.key)))
           THEN modLast.ret = LastSetCache(modLast.key).value
           ELSE modLast.ret = NoString

\* C9: with CACHE_STORE unset every cache-module call completes without an error,
\* getCache returning null.
C9_DisabledCacheIsNoop ==
    (env = "undefined" /\ modLast.op \in ModCalls)
        => modLast.err = "none" /\ modLast.ret = NoString

----------------------------------------------------------------------------
(* Properties of AnimeService, one call at a time *)

Last == prev.last
Before == prev.before
Quiet == InFlight = {}
Supported == env \in {"redis", "memory"}
WithinTtl(t0, t) == t < t0 + CACHE_TTL * 1000

\* C1: with a supported backend and the TTL not elapsed, the findById(E.mal_id) that
\* follows a completed create(E) returns E from the cache, without a repository read.
C1_WriteThrough ==
    (/\ Supported
     /\ Before.op = "create" /\ Before.err = "none"
     /\ Last.op = "findById" /\ Last.id = Before.item.mal_id
     /\ WithinTtl(Before.at, Last.at))
        => Last.err = "none" /\ Last.ret = Before.item /\ Last.reads = 0

\* C5: findById is read-through: a miss on an existing row stores the serialized
\* entity under 'anime_<id>' and returns it; a miss on an absent row returns null and
\* writes nothing, so the next findById of the still-absent id returns null again.
C5_ReadThrough ==
    (Last.op = "findById" /\ Last.err = "none")
        => /\ (Last.reads = 1 /\ Last.ret # Null /\ env = "redis" /\ Quiet /\ now = Last.at)
                => CachedNow(Last.id) = JSONstringify(Last.ret)
           /\ (Last.ret = Null /\ Quiet) => ~StringTruthy(CachedNow(Last.id))
           /\ (Before.op = "findById" /\ Before.id = Last.id /\ Before.err = "none"
                  /\ Before.ret = Null)
                => Last.ret = Null

\* C6: update(id, partial) that changed a row overwrites 'anime_<id>' with the
\* serialization of the re-read entity, which a following findById(id) returns, and
\* returns that entity; an update that changed no row leaves the cache as it was and
\* returns null.
C6_UpdateWritesThrough ==
    /\ (Last.op = "update" /\ Last.err = "none" /\ Quiet /\ now = Last.at)
          => IF Last.ret # Null
             THEN env = "redis" => CachedNow(Last.id) = JSONstringify(Last.ret)
             ELSE CachedNow(Last.id) = Last.was
    /\ (/\ Before.op = "update" /\ Before.err = "none" /\ Before.ret # Null
        /\ Last.op = "findById" /\ Last.id = Before.id /\ Last.err = "none"
        /\ WithinTtl(Before.at, Last.at))
          => Last.ret = Before.ret

\* C7: after delete(id) has completed the cache holds no entry for 'anime_<id>', and
\* the findById(id) that follows reads the repository and returns null.
C7_DeleteInvalidates ==
    /\ (Last.op = "delete" /\ Last.err = "none") => ~StringTruthy(CachedNow(Last.id))
    /\ (/\ Before.op = "delete" /\ Before.err = "none"
        /\ Last.op = "findById" /\ Last.id = Before.id /\ Last.err = "none")
          => Last.ret = Null /\ Last.reads = 1

\* a delete that removed a row of the Redis-backed service was followed by a
\* findById of that id, which read the repository and returned null
C7_Witness ==
    /\ env = "redis"
    /\ Before.op = "delete" /\ Before.err = "none" /\ Before.ret = JsTrue
    /\ Last.op = "findById" /\ Last.id = Before.id /\ Last.err = "none"
    /\ Last.ret = Null /\ Last.reads = 1

----------------------------------------------------------------------------
(* Properties of overlapping AnimeService calls *)

\* since no call was in flight, exactly one delete(id), which removed the row, and
\* findById(id) calls ran, and all of them have completed
DeleteRaceDone(id) ==
    /\ Quiet
    /\ busy.ops = {<<"delete", id>>, <<"findById", id>>}
    /\ busy.dels = 1
    /\ busy.removed

\* C8 as stated: for every interleaving of one delete(id) with concurrent
\* findById(id) calls, once all have completed the cache holds no entry for id.
C8_NoStaleEntryAfterRace ==
    \A id \in Ids : DeleteRaceDone(id) => ~StringTruthy(CachedNow(id))

\* C8 amended: the cache holds no entry for id once all have completed, provided the
\* delete's cache delete was applied after every cache write of the findById calls.
C8_NoStaleEntryWhenDeleteLast ==
    \A id \in Ids :
        (DeleteRaceDone(id) /\ busy.last[id] = "delete") => ~StringTruthy(CachedNow(id))

\* on Redis, a findById that missed the cache and wrote its entry overlapped a
\* delete whose cache delete came last
C8_Witness ==
    \E id \in Ids :
        /\ env = "redis"
        /\ DeleteRaceDone(id)
        /\ busy.last[id] = "delete"
        /\ busy.sets[id] > 0
        /\ ~StringTruthy(CachedNow(id))

----------------------------------------------------------------------------
(* Properties of AnimeService while Redis commands may reject *)

\* C11: in findById(id) on a cache miss with the row present, a failure of the cache
\* write does not fail the read: findById returns the entity read from the repository.
C11_CacheWriteFailureTolerated ==
    (Quiet /\ Last.op = "findById" /\ Last.reads = 1 /\ IsSome(rows[Last.id]))
        => Last.err = "none" /\ Last.ret = Anime(Last.id, Get(rows[Last.id]))

----------------------------------------------------------------------------
(* Properties of findByQuery *)

QueryCachedNow(options) == getCache(env, redis, QueryKey(options), now).ret
Mutations == {"create", "update", "delete"}

\* C12: findByQuery writes to the cache only when the repository returned a non-empty
\* list: after a query whose repository result is empty the cache has no entry for
\* that query's key, and the next identical findByQuery queries the repository again.
C12_EmptyResultNotCached ==
    /\ (Quiet /\ Last.op = "findByQuery" /\ Last.err = "none" /\ Last.reads = 1
          /\ Last.ret = EmptyList)
          => ~StringTruthy(QueryCachedNow(Last.item))
    /\ (/\ Before.op = "findByQuery" /\ Before.err = "none" /\ Before.reads = 1
        /\ Before.ret = EmptyList
        /\ Last.op = "findByQuery" /\ Last.err = "none" /\ Last.item = Before.item)
          => Last.reads = 1

\* on Redis, a query of all rows found none and wrote nothing, and the same query
\* read the repository again
C12_Witness ==
    /\ env = "redis"
    /\ Before.op = "findByQuery" /\ Before.err = "none" /\ Before.reads = 1
    /\ Before.ret = EmptyList /\ Before.item.limit = None
    /\ Last.op = "findByQuery" /\ Last.err = "none" /\ Last.item = Before.item
    /\ Last.reads = 1
    /\ Quiet /\ ~StringTruthy(QueryCachedNow(Last.item))

\* C13: after create, update and delete calls made through the service, findByQuery
\* (here: of options without a limit) returns the list the repository returns for
\* those options at that moment: a result cached before a mutation is not served
\* after a mutation that changes the result set.
C13_QueryNeverStale ==
    (Quiet /\ Last.op = "findByQuery" /\ Last.err = "none" /\ Last.item.limit = None)
        => Last.ret = Await(Repository_findByQuery(rows, Last.item))

----------------------------------------------------------------------------
(* Properties of the sync command *)

InLoop == sync.pc \in {"exists", "fetch", "persist", "checkpoint", "sleep"}
\* the first item of the window is being processed
FirstItem == InLoop /\ sync.i = 0

C15_CheckpointEveryItem ==
    sync.pc = "sleep" => sync.item.wrote = Some(sync.item.pos)

\* C16: over runs that are all started with --resume, every checkpoint value written
\* is strictly greater than the value stored before that run began.
C16_CheckpointAdvances ==
    (sync.pc = "sleep" /\ sync.allResume /\ IsSome(sync.saved) /\ IsSome(sync.item.wrote))
        => Get(sync.item.wrote) > Get(sync.saved)

\* the current item has been classified
Classified == sync.pc \in {"checkpoint", "sleep"}
\* the current item's entity was in the store when the iteration began and
\* service.findById returned a value for it
ItemExists == IsSome(sync.item.rowBefore) /\ Truthy(sync.item.exists)
ItemKey == CacheKey(sync.item.malId)

C18_ForceUpdateUpdates ==
    (Classified /\ sync.forceUpdate /\ ItemExists /\ sync.upstream[sync.item.malId] = 0)
        => /\ sync.item.outcome = "updated"
           /\ sync.updated = sync.item.c0.updated + 1
           /\ sync.processed = sync.item.c0.processed + 1
           /\ sync.created = sync.item.c0.created
           /\ sync.item.fetches = 1
           /\ sync.item.persist = "update"

\* a forced run updated an entity that an earlier run had created
C18_Witness ==
    /\ Classified /\ sync.forceUpdate /\ ItemExists
    /\ sync.upstream[sync.item.malId] = 0
    /\ sync.item.outcome = "updated" /\ sync.item.fetches = 1
    /\ sync.item.persist = "update"
    /\ rows[sync.item.malId] = Some(UpstreamData)

\* the upstream returns a valid payload for id during this run, possibly after retries
UpstreamValid(id) == sync.upstream[id] <= Retries
\* the ids of the run's window
WindowIds == {IdList[sync.window[k] + 1] : k \in 1..Len(sync.window)}

\* C19: for a list of n distinct ids, an empty store, a configured cache backend,
\* start index 0, no limit and an upstream that is valid for every id, the run ends
\* with processed = n, created = n, updated = skipped = failed = 0, all n entities in
\* the store and lastIndex = n - 1 in the checkpoint file.
C19_EndToEnd ==
    (/\ sync.pc = "done" /\ Supported
     /\ sync.startIndex = 0 /\ sync.limit = None
     /\ \A id \in Ids : sync.rows0[id] = None
     /\ \A k \in 1..Len(IdList) : UpstreamValid(IdList[k]))
        => /\ sync.processed = Len(IdList) /\ sync.created = Len(IdList)
           /\ sync.updated = 0 /\ sync.skipped = 0 /\ sync.failed = 0
           /\ \A k \in 1..Len(IdList) : IsSome(rows[IdList[k]])
           /\ progress = Some(Len(IdList) - 1)

\* C20: a single item's failure never ends the run: every identifier of the window is
\* attempted, an identifier whose fetch fails on every attempt increases only the
\* failed counter, and every other identifier that was absent is in the store at the
\* end (with a configured cache backend).
C20_FailureIsolation ==
    /\ (Supported /\ Classified /\ sync.item.fetches > 0 /\ ~UpstreamValid(sync.item.malId))
          => /\ sync.item.outcome = "failed"
             /\ Counters(sync) = [sync.item.c0 EXCEPT !.failed = @ + 1]
    /\ (Supported /\ sync.pc = "done")
          => /\ sync.ended = Len(sync.window)
             /\ \A id \in WindowIds :
                   (UpstreamValid(id) /\ sync.rows0[id] = None) => IsSome(rows[id])

\* the indices a run attempted
Attempted(run) == {run.attempted[k] : k \in 1..Len(run.attempted)}
\* the run under way was started with --resume, and without --limit, after a run with
\* the same from-index was cut short
ResumedAfterCrash ==
    /\ sync.pc \in {"exists", "fetch", "persist", "checkpoint", "sleep", "done"}
    /\ sync.prev.crashed
    /\ sync.resume /\ sync.limit = None
    /\ sync.fromIndex = sync.prev.fromIndex

\* C21: when the process terminates at any point of a run (a checkpoint write
\* included) and the sync is restarted with --resume on the same list and from-index,
\* every index from the original start index on is attempted in one of the two runs
\* and at most one index is attempted in both.
C21_CrashResume ==
    (ResumedAfterCrash /\ sync.pc = "done")
        => /\ \A k \in sync.prev.startIndex .. (Len(IdList) - 1) :
                 k \in Attempted(sync.prev) \cup Attempted(sync)
           /\ Cardinality(Attempted(sync.prev) \cap Attempted(sync)) <= 1

\* the current iteration has started and is not the first of its run
NextStarted == sync.pc \in {"fetch", "persist", "checkpoint", "sleep"} /\ sync.i > 0

\* C22: the start of an iteration and the start of the next one are at least 1000 ms
\* apart whatever the item's outcome and processing time: after an item that took
\* e ms the loop sleeps max(0, 1000 - e) ms, and not at all when e >= 1000.
C22_MinSpacing ==
    /\ NextStarted => sync.item.start - sync.last.start >= 1000
    /\ (sync.pc \in {"exists", "fetch", "persist", "checkpoint", "sleep", "done"}
           /\ sync.ended > 0)
          => sync.last.slept = IF sync.last.elapsed >= 1000 THEN 0
                               ELSE 1000 - sync.last.elapsed

\* an item that took 500 ms was followed by a sleep of 500 ms, and the next
\* iteration started 1000 ms after it
C22_Witness ==
    /\ NextStarted
    /\ sync.last.elapsed = 500 /\ sync.last.slept = 500
    /\ sync.item.start = sync.last.start + 1000

\* the fetch of the current item is over
Fetched == sync.pc \in {"persist", "checkpoint", "sleep"} /\ sync.item.fetches > 0

\* C23: fetchWithRetry(url, retries = 3) issues at most 4 requests; it returns the
\* body of the first request that is OK and issues none after it; when all 4 fail it
\* raises the error of the last one, and the loop classifies the item as FAILED.
C23_FetchBounded ==
    Fetched =>
        LET failing == sync.upstream[sync.item.malId] IN
        /\ sync.item.fetches <= 4
        /\ failing < 4 => /\ sync.item.fetches = failing + 1
                          /\ sync.item.anime = Anime(sync.item.malId, UpstreamData)
                          /\ sync.item.fetchErr = 0
        /\ failing >= 4 => /\ sync.item.fetches = 4
                           /\ sync.item.fetchErr = 4
                           /\ sync.item.outcome = "failed"
                           /\ sync.failed = sync.item.c0.failed + 1

\* three requests failed, the fourth was OK and its entity was created
C23_Witness ==
    /\ Fetched
    /\ sync.upstream[sync.item.malId] = Retries
    /\ sync.item.fetches = Retries + 1
    /\ sync.item.outcome = "created"
    /\ rows[sync.item.malId] = Some(UpstreamData)

\* C24: identifiers are processed strictly sequentially: at no time are two items in
\* flight, and the existence check of the item at index i + 1 starts only after the
\* fetch, the persist step and the checkpoint write attempt of the item at index i
\* have all completed.
C24_Sequential ==
    /\ InLoop => /\ Len(sync.attempted) - sync.ended \in {0, 1}
                 /\ sync.ended = sync.i
                 /\ sync.processed + sync.failed
                       = sync.i + (IF Classified THEN 1 ELSE 0)
    /\ (InLoop /\ sync.i > 0)
          => /\ sync.last.outcome \in {"skipped", "created", "updated", "failed"}
             /\ sync.last.outcome \in {"created", "updated"}
                   => sync.last.fetches > 0 /\ sync.last.persist # "none"
             /\ sync.last.wrote = Some(sync.item.currentIndex - 1)
             /\ sync.pc # "exists" => sync.item.start >= sync.last.start + sync.last.elapsed

\* the second item's existence check is over; the first item was fetched, created
\* and checkpointed before it
C24_Witness ==
    /\ InLoop /\ sync.i = 1 /\ sync.pc = "fetch"
    /\ sync.last.outcome = "created" /\ sync.last.fetches > 0
    /\ sync.last.wrote = Some(sync.item.currentIndex - 1)
    /\ IsSome(rows[IdList[sync.window[1] + 1]])

\* the indices s, s+1, ..., min(s + n, L) - 1, or s..L-1 without a limit, in order
ClaimedIndices(s, limit, L) ==
    LET end == IF IsSome(limit) /\ s + Get(limit) < L THEN s + Get(limit) ELSE L
    IN  [k \in 1..Max(end - s, 0) |-> s + k - 1]

\* C25: with effective start index s and --limit n on a list of length L the run
\* attempts exactly the indices s, s+1, ..., min(s + n, L) - 1, each once and in
\* increasing order; without --limit it attempts s..L-1.
C25_WindowIndices ==
    sync.pc = "done"
        => /\ sync.attempted = ClaimedIndices(sync.startIndex, sync.limit, Len(IdList))
           /\ sync.window = sync.attempted

----------------------------------------------------------------------------
(* Properties of the persist step *)

\* the last two calls were the same call with the same entity, one after the other
Repeated(op) ==
    /\ Quiet
    /\ Before.op = op /\ Before.err = "none"
    /\ Last.op = op /\ Last.item = Before.item /\ Last.id = Before.id

\* C26: persisting is idempotent per identifier: create(E) for an identifier that
\* already has a row succeeds without error and leaves exactly the row a single
\* create(E) leaves; update(id, E) twice leaves the same row as once.
C26_PersistIdempotent ==
    /\ Repeated("create")
          => Last.err = "none" /\ rows[Last.item.mal_id] = Some(Last.item.data)
    /\ Repeated("update")
          => /\ Last.err = "none"
             /\ rows[Last.item.mal_id] \in {None, Some(Last.item.data)}

----------------------------------------------------------------------------
(* Properties of QueryToSQL and CountQueryToSQL *)

\* both statements have been built for the query
Built == sql.table # "none" /\ sql.select # None /\ sql.count # None
Select == Get(sql.select)
Count == Get(sql.count)
ColumnNames == {getColumns(sql.table)[i].name : i \in DOMAIN getColumns(sql.table)}
\* the name is in the statement's text, bare or quoted
Mentions(statement, name) ==
    \E i \in DOMAIN statement.sql : statement.sql[i] \in {Sql(name), quoteIdent(name)}
\* the SQL the two functions write themselves
OwnSql ==
    {Sql(text) : text \in {"SELECT * FROM ", "SELECT COUNT(*) as count FROM ", " WHERE ",
                           " WHERE", " AND ", " AND", " OR ", " (", ")", " = ?", " LIKE ?",
                           " ORDER BY ", " ASC", " DESC", " LIMIT ?", " OFFSET ?"}}
\* the statement's text is made of the functions' own SQL and quoted names of the
\* table and its columns, and it has as many placeholders as parameters
Parameterized(statement) ==
    /\ \A i \in DOMAIN statement.sql :
          statement.sql[i] \in OwnSql \cup {quoteIdent(name) : name \in ColumnNames \cup {sql.table}}
    /\ Len(statement.params)
          = Cardinality({i \in DOMAIN statement.sql :
                            statement.sql[i] \in {Sql(" = ?"), Sql(" LIKE ?"), Sql(" LIMIT ?"),
                                                  Sql(" OFFSET ?")}})
\* the filter is in the statement as the quoted column followed by '= ?', its value
\* bound to that placeholder
BoundFilter(statement, f) ==
    \E i \in DOMAIN statement.sql :
        /\ statement.sql[i] = quoteIdent(f.key)
        /\ i < Len(statement.sql) /\ statement.sql[i + 1] = Sql(" = ?")
        /\ ParamAt(statement, i + 1) = f.value
SafeStatement(statement) ==
    /\ Parameterized(statement)
    /\ Cardinality(Placeholders(statement, " = ?"))
          = Cardinality({k \in DOMAIN sql.query.filters :
                            /\ sql.query.filters[k].key \in ColumnNames
                            /\ sql.query.filters[k].value.t # "undefined"})
    /\ \A k \in DOMAIN sql.query.filters :
          LET f == sql.query.filters[k] IN
          /\ f.key \notin ColumnNames => ~Mentions(statement, f.key)
          /\ (f.key \in ColumnNames /\ f.value.t # "undefined") => BoundFilter(statement, f)
          /\ f.value.t = "string" => ~Mentions(statement, f.value.s)
    /\ (sql.query.orderBy.t = "string" /\ sql.query.orderBy.s \notin ColumnNames)
          => ~Mentions(statement, sql.query.orderBy.s)

\* C27: in the output of QueryToSQL and CountQueryToSQL a filter key or an orderBy
\* value that is not a column of the table appears nowhere in the SQL text and adds
\* no parameter; for a filter key that is a column the value is only in params and
\* the text holds the quoted column name followed by '= ?'.
C27_IdentifierSafety ==
    Built => SafeStatement(Select) /\ SafeStatement(Count)

\* a filter on a column and a filter on a key that is no column, both with a value
\* written as SQL, and an orderBy that is no column: one bound equality in each
\* statement
C27_Witness ==
    /\ Built /\ sql.table = "anime"
    /\ sql.query.filters = <<[key |-> "1=1 --", value |-> Str("' OR 1=1 --")],
                             [key |-> "status", value |-> Str("' OR 1=1 --")]>>
    /\ sql.query.orderBy = Str("1=1 --")
    /\ sql.query.search = Undefined /\ sql.query.limit = Undefined
    /\ Select.params = <<Str("' OR 1=1 --")>> /\ Count.params = Select.params
    /\ Select.sql = <<Sql("SELECT * FROM "), quoteIdent("anime"), Sql(" WHERE "),
                      quoteIdent("status"), Sql(" = ?")>>

\* limit is a non-negative integer
ValidLimit == /\ sql.query.limit.t = "number"
              /\ sql.query.limit.twice % 2 = 0 /\ sql.query.limit.twice >= 0
HasLimit == Placeholders(Select, " LIMIT ?") # {}
HasOffset == Placeholders(Select, " OFFSET ?") # {}
\* the value bound to the placeholder of the clause
Bound(clause) == ParamAt(Select, CHOOSE i \in Placeholders(Select, clause) : TRUE)

\* C28: in the output of QueryToSQL 'LIMIT ?' is emitted, bound to limit, exactly when
\* limit is a non-negative integer; 'OFFSET ?' is emitted only with 'LIMIT ?' and is
\* then bound to (page - 1) * limit; with limit absent or invalid there is no OFFSET.
C28_LimitOffset ==
    sql.select # None
        => /\ HasLimit <=> ValidLimit
           /\ HasLimit => Bound(" LIMIT ?") = sql.query.limit
           /\ HasOffset => /\ HasLimit
                           /\ Bound(" OFFSET ?").twice
                                 = (sql.query.page.twice - 2) * (sql.query.limit.twice \div 2)
           /\ ~ValidLimit => ~HasOffset

\* limit 2 and page 3: LIMIT ? bound to 2 and OFFSET ? bound to 4
C28_Witness ==
    /\ sql.select # None
    /\ sql.query.limit = Num(2) /\ sql.query.page = Num(3)
    /\ HasLimit /\ HasOffset
    /\ Bound(" LIMIT ?") = Num(2) /\ Bound(" OFFSET ?") = Num(4)

\* C29: a page of 0 or a negative page is treated as 'no offset': for a limit that is
\* a non-negative integer and an integer page <= 0 the SQL has no OFFSET clause and
\* params no offset value, so a bound OFFSET value is never negative.
C29_NoOffsetForPageZero ==
    sql.select # None
        => /\ (ValidLimit /\ sql.query.page.t = "number" /\ sql.query.page.twice % 2 = 0
                  /\ sql.query.page.twice <= 0)
                 => /\ ~HasOffset
                    /\ Select.params[Len(Select.params)] = sql.query.limit
           /\ HasOffset => Bound(" OFFSET ?").twice >= 0

\* the pieces of the statement after SELECT ... FROM <table>, up to ORDER BY, LIMIT or
\* the end
WhereFragment(statement) ==
    LET rest == SubSeq(statement.sql, 3, Len(statement.sql))
        stops == {i \in DOMAIN rest : rest[i] \in {Sql(" ORDER BY "), Sql(" LIMIT ?")}}
    IN  IF stops = {} THEN rest
        ELSE SubSeq(rest, 1, (CHOOSE i \in stops : \A j \in stops : i <= j) - 1)
\* the parameters of the select without the LIMIT and OFFSET values
PredicateParams ==
    SubSeq(Select.params, 1,
           Len(Select.params) - (IF HasLimit THEN 1 ELSE 0) - (IF HasOffset THEN 1 ELSE 0))

\* C30: CountQueryToSQL and QueryToSQL build the same predicate: the WHERE fragment of
\* both is textually identical and the count's params are the select's without the
\* LIMIT and OFFSET values, so countByQuery(options) is the length of
\* findByQuery(options without limit).
C30_SamePredicate ==
    Built
        => /\ WhereFragment(Count) = WhereFragment(Select)
           /\ Count.params = PredicateParams
           /\ sql.counted >= 0
           /\ sql.counted
                 = stmt_all(QueryToSQL([sql.query EXCEPT !.limit = Undefined], sql.table),
                            sql.table)

\* a filter and a search that keep two rows of [anime]: the count is 2 while the
\* select with limit 0 returns none
C30_Witness ==
    /\ Built /\ sql.table = "anime"
    /\ sql.query.filters = <<[key |-> "status", value |-> Str("airing")]>>
    /\ sql.query.search = Str("naru")
    /\ sql.query.limit = Num(0)
    /\ sql.counted = 2 /\ sql.found = 0
    /\ Count.params = <<Str("airing"), Str("%naru%"), Str("%naru%")>>

----------------------------------------------------------------------------
(* Properties of the checkpoint file across runs *)

\* C36: across any sequence of runs with any flags, no checkpoint write stores a
\* lastIndex lower than the lastIndex the file held before that write.
C36_LastIndexOnlyAdvances ==
    [][(IsSome(readProgress(progress)) /\ IsSome(readProgress(progress')))
          => Get(readProgress(progress')) >= Get(readProgress(progress))]_vars

----------------------------------------------------------------------------
(* Properties of a finished run *)

\* the identifiers the run classified CREATED or UPDATED
Persisted == {sync.outcomes[k].malId : k \in
                 {j \in 1..Len(sync.outcomes) :
                     sync.outcomes[j].outcome \in {"created", "updated"}}}

\* C38: at the end of a run, every identifier the run classified CREATED or UPDATED
\* has a row in the store, and the row holds the fetched payload.
C38_ClassifiedIsStored ==
    sync.pc = "done" => \A id \in Persisted : rows[id] = Some(UpstreamData)

----------------------------------------------------------------------------
(* Properties of the item loop under faults *)

\* the current item's request succeeded and its payload has no data field
NoDataItem ==
    /\ Classified
    /\ sync.item.fetches > 0 /\ sync.item.fetchErr = 0
    /\ ~sync.bodies[sync.item.malId]

\* C33: an item whose upstream request succeeds with a payload that has no usable
\* data field is classified FAILED (failed + 1; processed, created and updated
\* unchanged), neither service.create nor service.update is called for it, its
\* checkpoint is written, and the run goes on to attempt every item of the window.
C33_NoDataIsFailed ==
    /\ NoDataItem =>
          /\ sync.item.outcome = "failed"
          /\ Counters(sync) = [sync.item.c0 EXCEPT !.failed = @ + 1]
          /\ sync.item.persist = "none"
          /\ rows[sync.item.malId] = sync.item.rowBefore
          /\ sync.pc = "sleep" =>
                /\ sync.item.wrote = Some(sync.item.currentIndex)
                /\ progress = Some(sync.item.currentIndex)
    /\ sync.pc = "done" => Len(sync.outcomes) = Len(sync.window)

\* the first item of a two-item window had a payload without data: it failed after one
\* request, wrote its checkpoint, and the second item is being created
C33_Witness ==
    /\ InLoop /\ sync.i = 1 /\ sync.pc = "checkpoint"
    /\ ~sync.bodies[sync.outcomes[1].malId]
    /\ sync.upstream[sync.outcomes[1].malId] = 0
    /\ sync.last.outcome = "failed" /\ sync.last.fetches = 1
    /\ sync.last.persist = "none"
    /\ sync.last.wrote = Some(sync.startIndex)
    /\ sync.item.outcome = "created"

\* a run begins
RunBegins == sync'.runs = sync.runs + 1
\* the progress file is missing or its text is not JSON
Unreadable(file) == Len(file) # 1
\* the checkpoint step of the current item ends
CheckpointEnds == sync.pc = "checkpoint" /\ sync'.pc # "checkpoint"

\* C34: checkpoint file errors never change a run's outcome. A run that begins over
\* a missing or non-JSON progress file reads it as an empty state, so --resume has
\* no effect and the start index is the from-index, and a write over such a file
\* leaves a document holding the written lastIndex; a checkpoint write that fails is
\* swallowed: the item's classification and the counters are as they were, the loop
\* goes on to the delay and to the next item, and the run attempts its whole window.
C34_CheckpointErrorsSwallowed ==
    /\ [][(RunBegins /\ Unreadable(progress))
             => /\ sync'.saved = None
                /\ sync'.startIndex = sync'.fromIndex
                /\ sync'.pc \in {"exists", "done"}]_vars
    /\ [][CheckpointEnds
             => /\ sync'.pc = "sleep"
                /\ Counters(sync') = Counters(sync)
                /\ sync'.item.outcome = sync.item.outcome
                /\ sync'.i = sync.i
                /\ IsSome(sync'.item.wrote) => progress' = Some(sync.item.currentIndex)]_vars
    /\ [](sync.pc = "done" => Len(sync.outcomes) = Len(sync.window))

\* a resumed run over a progress file that a failed write had truncated started at its
\* from-index, the write of its first item failed too, and the run went on and
\* created the second item
C34_Witness ==
    /\ sync.pc = "done" /\ sync.runs = 2
    /\ sync.resume /\ sync.saved = None /\ sync.startIndex = 0
    /\ Len(sync.window) = 2
    /\ sync.outcomes[1].outcome = "skipped"
    /\ sync.last.outcome = "created" /\ sync.last.wrote = None
    /\ progress = Torn

\* C37: every attempted item increases exactly one of created, updated, skipped and
\* failed by one; at the end of every iteration processed = created + updated +
\* skipped; and when the run ends processed + failed is the number of items in the
\* window.
C37_Counters ==
    /\ Classified =>
          \E c \in {"created", "updated", "skipped", "failed"} :
              /\ Counters(sync)[c] = sync.item.c0[c] + 1
              /\ \A d \in {"created", "updated", "skipped", "failed"} \ {c} :
                    Counters(sync)[d] = sync.item.c0[d]
    /\ (Classified \/ sync.pc = "done") =>
          sync.processed = sync.created + sync.updated + sync.skipped
    /\ sync.pc = "done" => sync.processed + sync.failed = Len(sync.window)

\* a run over two items ended with one of them created and the other failed
C37_Witness ==
    /\ sync.pc = "done" /\ Len(sync.window) = 2
    /\ sync.created = 1 /\ sync.failed = 1 /\ sync.processed = 1
    /\ sync.outcomes[1].outcome = "failed"

----------------------------------------------------------------------------
(* Properties of fetchWithRetry *)

Fetching == sync.pc \in {"request", "backoff", "returned", "thrown"}
\* the sleeps of the call so far, in order
Delays == [k \in 1..(Len(sync.log) \div 2) |-> sync.log[2 * k].ms]
\* the requests of the call so far, in order
Requests == [k \in 1..((Len(sync.log) + 1) \div 2) |-> sync.log[2 * k - 1]]

----------------------------------------------------------------------------
(* Properties of the two cache backends side by side *)

\* C35: for every sequence of set(key, value, ttl), get(key) and delete(key) calls
\* given to a MemoryCache and to a RedisCache with the same arguments at the same
\* times, ttl omitted or any integer, every get returns the same result from both.
C35_BackendsAgree ==
    (memLast.op = "get" /\ modLast.op = "get") => memLast.ret = modLast.ret

----------------------------------------------------------------------------
(* Properties of the timers of one MemoryCache instance *)

\* the pending timers that would remove key
TimersOf(key) == {tm \in mem.timers : tm.key = key}
\* the entry under key is in the map and was set with ttl > 0
Expiring(key) == IsSome(mem.store[key]) /\ IsSome(Get(mem.store[key]).expiresAt)

\* C40: in every reachable state of one MemoryCache instance the pending expiration
\* timers are exactly the timers of the entries now in the map that were set with
\* ttl > 0, at most one per key; after delete(k), after clear() and after a get(k)
\* that returned null, no pending timer remains for the removed keys.
C40_TimerInvariant ==
    /\ \A tm \in mem.timers :
          /\ Expiring(tm.key)
          /\ Get(mem.store[tm.key]).timer = Some(tm.tid)
          /\ Get(mem.store[tm.key]).expiresAt = Some(tm.due)
    /\ \A k \in AllKeys :
          /\ Cardinality(TimersOf(k)) <= 1
          /\ Expiring(k) => \E tm \in TimersOf(k) : Get(mem.store[k]).timer = Some(tm.tid)
          /\ (k \in Keys /\ IsSome(mem.store[k]))
                => (Expiring(k) <=> HasTtl(LastWrite(k)))
    /\ memLast.op = "delete" => TimersOf(memLast.key) = {}
    /\ memLast.op = "clear" => mem.timers = {}
    /\ (memLast.op = "get" /\ memLast.ret = NoString) => TimersOf(memLast.key) = {}

\* a set with a ttl replaced an entry whose timer was pending: the only timer left for
\* the key is the new entry's, while the old timer's due time has passed
C40_Witness ==
    /\ memLast.op = "set"
    /\ HasTtl(LastWrite(memLast.key))
    /\ IsSome(LastWrite(memLast.key).oldDue)
    /\ Cardinality(TimersOf(memLast.key)) = 1
    /\ \E tm \in TimersOf(memLast.key) :
          tm.due > Get(LastWrite(memLast.key).oldDue)

----------------------------------------------------------------------------
(* Properties of the cache key of findByQuery *)

\* both the keys and the statements of the two calls have been built
BothBuilt == IsSome(sql.keys) /\ IsSome(sql.statements)

\* C39: any two QueryOptions for which QueryToSQL builds different statements (text or
\* parameters), because they differ in page, limit, orderBy, orderDirection, search
\* or a filter entry, are given different cache keys by QueryToString.
C39_DistinctKeys ==
    (BothBuilt /\ Get(sql.statements).a # Get(sql.statements).b)
        => Get(sql.keys).a # Get(sql.keys).b

----------------------------------------------------------------------------
(* Properties of the row form of an Anime *)

\* the scalar fields and the list fields of the model's entities
ScalarFields == {"mal_id", "url", "image_url", "approved", "title", "title_english",
                 "episodes", "airing", "scored_by"}
ListFields == {"titles", "title_synonyms", "genres"}

\* C31: for every Anime E, toAnime applied to the row that holds animeValues(E) gives
\* an entity whose scalar fields equal those of E (booleans through 0/1 and back,
\* null and empty-string scalars included) and whose list fields are deep-equal to
\* those of E (empty and non-empty lists).
C31_RoundTrip ==
    IsSome(sql.back) =>
        /\ \A f \in ScalarFields : Get(sql.back)[f] = sql.entity[f]
        /\ \A f \in ListFields :
              Get(sql.back)[f] = orEmpty(sql.entity[f])

====
